---- MODULE Spec2Model ----
(***************************************************************************)
(* The aggregation hub of NetworkSniffer (src/src/server/server.cpp):      *)
(* one worker thread per accepted connection (handleClient), the shared    *)
(* registry (clients, fd_to_ssid, ip_to_sniffer, next_ssid) guarded by     *)
(* clients_mutex, and the frame writer sendFrame, which issues three       *)
(* write(2) calls per frame (header, payload, terminator).                 *)
(***************************************************************************)
EXTENDS Integers, Sequences, FiniteSets, TLC

\* ------------------------------------------------------------------ bounds
NConn == 3          \* connections the hub accepts in one run
MaxFrames == 2      \* frames read in the sniffer loops, over all sniffers
MaxSmall == 2       \* longest payload whose every content is tried
SmallStream == 20   \* longest stream that is fed in chunks of every size
MaxTail == 2        \* valid frames that follow the first on a connection
MaxCap == 64        \* longest packet slice that is decoded
BufSize == 64       \* length of the BPF read buffer
MaxRecords == 2     \* capture records laid out in one batch
MaxBatches == 1     \* batches that are read and walked
MaxLogs == 2        \* records the parser hands to the agent's callback
MaxLockFrames == 1   \* frames read in the sniffer loops where the lock's liveness is checked
MaxAdded == 1102    \* records added to the viewer's table

\* ------------------------------------------------------- program constants
PROTOCOL_VERSION == 1
TYPE_CLIENT_HELLO == 1
TYPE_SERVER_HELLO == 2
TYPE_TRAFFIC_LOG == 3
TYPE_FORWARD_LOG == 4
TYPE_ERROR == 5
MaxPayload == 1024
TERM_BYTE == 10
HEADER_SIZE == 4

Conn == 1..NConn
FDs == 1..NConn
IPs == {"127.0.0.1"}
IpLen == 9
FrameTypes == TYPE_CLIENT_HELLO..TYPE_ERROR
\* a type code no side knows
UnknownType == 9
\* payload lengths of the TRAFFIC_LOG frames a sniffer sends: a short record
\* and the longest payload readFrame accepts
Lens == {7, MaxPayload}

VARIABLES
    pc,             \* position of each connection's worker in handleClient
    client_fd,      \* handleClient's client_fd (0 outside the worker's life)
    client_ip,      \* handleClient's client_ip
    fdOwner,        \* the open descriptors: fd -> connection, 0 when closed
    clients,        \* std::vector<Client> clients
    fd_to_ssid,     \* std::map<int, uint32_t> fd_to_ssid
    ip_to_sniffer,  \* std::map<std::string, SnifferRecord> ip_to_sniffer
    next_ssid,      \* uint32_t next_ssid
    next_sniffer_index,
    mutex,          \* clients_mutex: the connection whose worker holds it, or 0
    ssid,           \* handleClient's local ssid
    is_sniffer,     \* handleClient's local is_sniffer
    frame,          \* log_payload of the broadcast block: the TRAFFIC_LOG's
                    \* position in the sniffer's stream and its length
    it,             \* the broadcast loop's position in clients
    wstep,          \* writes of the current sendFrame call already done (0..2)
    nread,          \* frames read so far in each sniffer loop
    total,          \* frames read so far in all sniffer loops
    wire,           \* what the hub has written on each open connection, in order
    peer,           \* each connection: "open", "closed" by the remote end,
                    \* "broken" once a write on it has failed
    stalled,        \* the remote end does not drain: a write blocks
    sigpipe,        \* the connection whose worker's write raised SIGPIPE and
                    \* ended the hub process, or 0 while the hub runs
    assigned,       \* history: the SSIDs assigned, in order of assignment
    snap,           \* history: clients as found when the broadcast took the lock
    caught          \* the worker is past handleClient's catch block

\* The framing codec, taken by itself: one frame goes through the encoder
\* (sendFrame), its bytes travel, intact or damaged, and a decoder takes them:
\* the blocking readFrame of the hub or the buffered readFrame of the viewer.
VARIABLES
    tx,             \* sendFrame's arguments: type and payload
    writes,         \* what the transport does with sendFrame's three writes:
                    \* how many it takes whole, and how the next one ends: it
                    \* takes some bytes and returns, or it raises SIGPIPE
    sendOk,         \* sendFrame's return value: "true", "false", "none" before the call
    chan,           \* the bytes sendFrame has written
    stream,         \* the bytes that arrive at the decoder
    fault,          \* what was done to the bytes on the way
    role,           \* whose decoder reads: "hub" or "viewer"
    pos,            \* bytes of stream the decoder's side has taken so far
    read_buffer_,   \* SnifferClient::read_buffer_
    frames,         \* the frames the decoder has produced, in order
    emitted,        \* the records the viewer has emitted (forwardLogReceived)
    open,           \* the decoder's side still has the connection open
    failed,         \* history: bytes taken when a framing error was found, or -1
    cpc             \* the codec scenario's phase

codec == <<tx, writes, sendOk, chan, stream, fault, role, pos, read_buffer_, frames,
           emitted, open, failed, cpc>>

\* The sniffer agent's capture side, taken by itself: Sniffer::doReadLoop
\* walks the batches that read(2) on the BPF device returns, and
\* PacketParser decodes one packet slice.
VARIABLES
    buffer_,        \* Sniffer::buffer_, the bytes of the BPF read buffer
    bytes_read,     \* doReadLoop: what the last read returned
    ptr,            \* doReadLoop: the cursor, as an offset into buffer_
    wk,             \* doReadLoop's position: "read", "walk", "off"
    last,           \* history: what the last turn of the inner loop found and did
    handed,         \* history: the slices given to the parser in this batch
    batches,        \* history: the batches read so far
    packet,         \* parseAndPrint's packet, caplen being its length
    touched,        \* history: the offsets of packet the decoders have read
    invoked,        \* history: the decoders that were called
    output,         \* the lines the decoders have printed, as records
    ppc             \* the decoder scenario's phase: "parse", "done", "off"

\* The sniffer agent's connection to the hub: the constructor's
\* registration and the callback that sends the records.
VARIABLES
    configured,     \* the agent was given a hub address and port
    reply,          \* what the hub answers to the CLIENT_HELLO
    server_fd_,     \* Sniffer::server_fd_, -1 without a connection
    ssid_,          \* Sniffer::ssid_
    callback,       \* PacketParser's log callback is set to sendTrafficLog
    sent,           \* the frames the agent has written to the hub, in order
    logs,           \* history: calls of the callback so far
    apc             \* the agent's position

\* The viewer's window: the table of one sniffer's tab.
VARIABLES
    table,          \* the table's rows, row 0 first, each the number of the record
                    \* it shows (records are numbered as they are received)
    added           \* calls of addLogRowToTable so far

capture == <<buffer_, bytes_read, ptr, wk, last, handed, batches>>
decoder == <<packet, touched, invoked, output, ppc>>
agent == <<configured, reply, server_fd_, ssid_, callback, sent, logs, apc>>
sniffer == <<capture, decoder, agent>>
gui == <<table, added>>

registry == <<clients, fd_to_ssid, ip_to_sniffer, next_ssid, next_sniffer_index, assigned>>
locals == <<ssid, is_sniffer, frame, it, wstep, nread, snap, caught>>
conns == <<client_fd, client_ip, fdOwner>>
remote == <<peer, stalled>>

hub == <<pc, client_fd, client_ip, fdOwner, clients, fd_to_ssid, ip_to_sniffer,
         next_ssid, next_sniffer_index, mutex, ssid, is_sniffer, frame, it,
         wstep, nread, total, wire, peer, stalled, sigpipe, assigned, snap, caught>>

vars == <<hub, codec, sniffer, gui>>

\* ----------------------------------------------------------------- helpers
\* A uint32_t value is held as the integer of -2^31..2^31-1 that is congruent
\* to it modulo 2^32: 0..2^31-1 stand for themselves and -1 stands for
\* 0xFFFFFFFF, which keeps exactly the 2^32 values of the type.
UINT32_MAX == -1

\* the decimal digits of a uint32_t as json's dump() prints it
RECURSIVE Digits(_)
Digits(n) == IF n < 0 THEN 10
             ELSE IF n < 10 THEN 1 ELSE 1 + Digits(n \div 10)

\* response.dump(): {"ip":"<ip>","registered":true,"ssid":<n>}
HelloLen(n) == 35 + IpLen + Digits(n)

\* forward.dump(): {"log":<record>,"ssid":<n>}
ForwardLen(n, len) == 16 + len + Digits(n)

\* a counter that is read but not advanced
NextSsidSame(n) == n

\* next_ssid++ on a uint32_t: 0x7FFFFFFF goes on to 0x80000000 and
\* 0xFFFFFFFF (held as -1) goes on to 0.
NextSsid(n) == IF n = 2147483647 THEN -2147483647 - 1 ELSE n + 1

\* a length test that also turns away a payload of exactly MaxPayload bytes
TooLongAtLimit(len) == len >= MaxPayload

\* sendFrame's first test
TooLong(len) == len > MaxPayload

Parts == <<"hdr", "pay", "term">>

Chunk(w, type, s, log, k) ==
    [from |-> w, type |-> type, ssid |-> s, log |-> log, part |-> Parts[k]]

NoFrame == [seq |-> 0, len |-> 0, own |-> 0]

LowestFree == CHOOSE f \in FDs : fdOwner[f] = 0 /\ \A g \in FDs : g < f => fdOwner[g] # 0

RECURSIVE RemoveFd(_, _)
RemoveFd(cl, f) ==
    IF cl = <<>> THEN <<>>
    ELSE IF Head(cl).fd = f THEN RemoveFd(Tail(cl), f)
         ELSE <<Head(cl)>> \o RemoveFd(Tail(cl), f)

\* the first position from i on that holds a client that is not a sniffer
RECURSIVE NextViewer(_, _)
NextViewer(cl, i) ==
    IF i > Len(cl) THEN i
    ELSE IF ~cl[i].is_sniffer THEN i
    ELSE NextViewer(cl, i + 1)

Registered(c) ==
    /\ client_fd[c] # 0
    /\ fdOwner[client_fd[c]] = c
    /\ \E i \in 1..Len(clients) : clients[i].fd = client_fd[c]

\* no frame is under way in the codec scenario
CodecIdle ==
    /\ tx = [type |-> 0, payload |-> <<>>]
    /\ writes = [ok |-> 3, part |-> 0, end |-> "returns"]
    /\ sendOk = "none"
    /\ chan = <<>>
    /\ stream = <<>>
    /\ fault = [kind |-> "none", tail |-> 0]
    /\ role = "none"
    /\ pos = 0
    /\ read_buffer_ = <<>>
    /\ frames = <<>>
    /\ emitted = <<>>
    /\ open = TRUE
    /\ failed = -1
    /\ cpc = "off"

\* no turn of the inner loop has been taken
NoStep == [p |-> -1, hdrlen |-> 0, caplen |-> 0, top |-> -1, stop |-> FALSE, hand |-> FALSE]

\* nothing is captured
CaptureIdle ==
    /\ buffer_ = <<>>
    /\ bytes_read = 0
    /\ ptr = 0
    /\ wk = "off"
    /\ last = NoStep
    /\ handed = {}
    /\ batches = 0

\* nothing is decoded
DecoderIdle ==
    /\ packet = <<>>
    /\ touched = {}
    /\ invoked = {}
    /\ output = <<>>
    /\ ppc = "off"

\* no hub reply
NoReply == [frame |-> "eof", type |-> 0, json |-> "bad", ssid |-> 0]

\* no agent is started
AgentIdle ==
    /\ configured = FALSE
    /\ reply = NoReply
    /\ server_fd_ = -1
    /\ ssid_ = 0
    /\ callback = FALSE
    /\ sent = <<>>
    /\ logs = 0
    /\ apc = "off"

SnifferIdle == CaptureIdle /\ DecoderIdle /\ AgentIdle

\* a new tab's table
TableEmpty ==
    /\ table = <<>>
    /\ added = 0

HubInit ==
    /\ pc = [c \in Conn |-> "idle"]
    /\ client_fd = [c \in Conn |-> 0]
    /\ client_ip = [c \in Conn |-> "127.0.0.1"]
    /\ fdOwner = [f \in FDs |-> 0]
    /\ clients = <<>>
    /\ fd_to_ssid = [f \in {} |-> 0]
    /\ ip_to_sniffer = [a \in {} |-> 0]
    /\ next_ssid = 1
    /\ next_sniffer_index = 1
    /\ mutex = 0
    /\ ssid = [c \in Conn |-> 0]
    /\ is_sniffer = [c \in Conn |-> FALSE]
    /\ frame = [c \in Conn |-> NoFrame]
    /\ it = [c \in Conn |-> 0]
    /\ wstep = [c \in Conn |-> 0]
    /\ nread = [c \in Conn |-> 0]
    /\ total = 0
    /\ wire = [c \in Conn |-> <<>>]
    /\ peer = [c \in Conn |-> "open"]
    /\ stalled = [c \in Conn |-> FALSE]
    /\ sigpipe = 0
    /\ assigned = <<>>
    /\ snap = [c \in Conn |-> <<>>]
    /\ caught = [c \in Conn |-> FALSE]

Init == HubInit /\ CodecIdle /\ SnifferIdle /\ TableEmpty

\* ------------------------------------------------------------ write(2)
\* A write on a descriptor whose remote end does not drain blocks; on a
\* closed descriptor it fails at once.
Blocked(f) == fdOwner[f] # 0 /\ stalled[fdOwner[f]]

\* The results write(2) can give for a region of a frame: the region is
\* taken whole ("ok"), or it is not ("fail": write returns -1 or a count short
\* of the region, which sendFrame treats alike), or the write raises SIGPIPE
\* ("sigpipe"). The hub installs no handler for SIGPIPE and passes no
\* MSG_NOSIGNAL (it calls write, not send), so whether a write on a
\* connection the remote end has closed returns -1 or ends the process is
\* up to the disposition the process was started with and to the error the
\* socket holds. A connection whose remote end is open takes every region;
\* after the remote end has closed a write may still be taken, and once a
\* write has failed the connection is broken and no later write is taken.
WriteOutcomes(f) ==
    IF fdOwner[f] = 0 THEN {"fail"}
    ELSE IF peer[fdOwner[f]] = "open" THEN {"ok"}
    ELSE IF peer[fdOwner[f]] = "broken" THEN {"fail", "sigpipe"}
    ELSE {"ok", "fail", "sigpipe"}

\* a sendFrame without the length test
SendOutcomesAnyLength(f, len, k) == WriteOutcomes(f)

\* sendFrame resumed after k writes: the length test comes first
SendOutcomes(f, len, k) ==
    IF k = 0 /\ TooLong(len) THEN {"reject"} ELSE WriteOutcomes(f)

\* The same for the SERVER_HELLO on a connection that is not registered yet:
\* the remote end may be gone by the time of any of the three writes, and a
\* failed write ends the connection at once. SIGPIPE needs a reset from the
\* remote end, which only an earlier write of the hub can have drawn.
HelloOutcomes(len, k) ==
    IF k = 0 /\ TooLong(len) THEN {"reject"}
    ELSE IF k = 0 THEN {"ok", "fail"}
    ELSE {"ok", "fail", "sigpipe"}

\* what sendFrame does after this write: go on, return true, return false;
\* after SIGPIPE it does not return
SendResult(out, k) ==
    IF out = "ok" THEN (IF k = 2 THEN "true" ELSE "more")
    ELSE IF out = "sigpipe" THEN "killed"
    ELSE "false"

\* the bytes on the connections after a write of chunk ch on descriptor f
Written(f, ch, out) ==
    IF fdOwner[f] = 0 \/ out # "ok" THEN wire
    ELSE [wire EXCEPT ![fdOwner[f]] = Append(@, ch)]

\* a transport on which a failed write leaves the connection as it was
PeerUnbroken(f, out) == peer

\* the connections after a write with result out on descriptor f
PeerAfter(f, out) ==
    IF fdOwner[f] # 0 /\ out \in {"fail", "sigpipe"}
    THEN [peer EXCEPT ![fdOwner[f]] = "broken"]
    ELSE peer

\* close(client_fd) at the end of a worker: the descriptor is free again,
\* the connection is gone and the worker's locals with it
Closed(c) ==
    /\ fdOwner' = [fdOwner EXCEPT ![client_fd[c]] = 0]
    /\ client_fd' = [client_fd EXCEPT ![c] = 0]
    /\ pc' = [pc EXCEPT ![c] = "done"]
    /\ peer' = [peer EXCEPT ![c] = "closed"]
    /\ wire' = [wire EXCEPT ![c] = <<>>]
    /\ ssid' = [ssid EXCEPT ![c] = 0]
    /\ is_sniffer' = [is_sniffer EXCEPT ![c] = FALSE]
    /\ nread' = [nread EXCEPT ![c] = 0]
    /\ caught' = [caught EXCEPT ![c] = FALSE]
    /\ UNCHANGED <<client_ip, stalled, frame, it, wstep, snap>>

\* ------------------------------------------------------------ acceptLoop
Accept(c) ==
    /\ UNCHANGED <<codec, sniffer, gui>>
    /\ sigpipe = 0
    /\ pc[c] = "idle"
    /\ \A d \in Conn : d < c => pc[d] # "idle"
    /\ \E a \in IPs :
        /\ client_ip' = [client_ip EXCEPT ![c] = a]
        /\ client_fd' = [client_fd EXCEPT ![c] = LowestFree]
        /\ fdOwner' = [fdOwner EXCEPT ![LowestFree] = c]
        /\ pc' = [pc EXCEPT ![c] = "first"]
    /\ UNCHANGED <<registry, locals, remote, mutex, total, sigpipe, wire>>

\* ---------------------------------------------------------- handleClient
\* the first readFrame fails: close(client_fd); return
ReadFirstFail(c) ==
    /\ pc[c] = "first"
    /\ Closed(c)
    /\ UNCHANGED <<registry, mutex, total, sigpipe>>

\* the first frame: its type, whether its payload parses as JSON, and
\* whether the parsed object contains "interface" or "type":"gui"
FirstFrames == [type : FrameTypes, json : BOOLEAN, interface : BOOLEAN, gui : BOOLEAN]

\* a first frame that is not a CLIENT_HELLO, or whose payload json::parse
\* rejects, takes the worker to the end of handleClient
ReadFirst(c) ==
    /\ pc[c] = "first"
    /\ \E f \in FirstFrames :
        IF f.type = TYPE_CLIENT_HELLO /\ f.json
        THEN /\ is_sniffer' = [is_sniffer EXCEPT ![c] = f.interface]
             /\ pc' = [pc EXCEPT ![c] = "helloLock"]
             /\ UNCHANGED caught
        ELSE /\ pc' = [pc EXCEPT ![c] = "cleanup"]
             /\ caught' = [caught EXCEPT ![c] = (f.type = TYPE_CLIENT_HELLO)]
             /\ UNCHANGED is_sniffer
    /\ UNCHANGED <<registry, conns, remote, mutex, total, sigpipe, wire, ssid, frame,
                   it, wstep, nread, snap>>

\* a registration that does not wait for the lock
HelloLockNoMutex(c) ==
    /\ pc[c] = "helloLock"
    /\ mutex' = c
    /\ IF is_sniffer[c] /\ client_ip[c] \notin DOMAIN ip_to_sniffer
       THEN /\ ip_to_sniffer' = [a \in DOMAIN ip_to_sniffer \cup {client_ip[c]} |->
                                    IF a = client_ip[c] THEN next_sniffer_index
                                    ELSE ip_to_sniffer[a]]
            /\ next_sniffer_index' = next_sniffer_index + 1
       ELSE UNCHANGED <<ip_to_sniffer, next_sniffer_index>>
    /\ ssid' = [ssid EXCEPT ![c] = next_ssid]
    /\ next_ssid' = NextSsid(next_ssid)
    /\ fd_to_ssid' = [f \in DOMAIN fd_to_ssid \cup {client_fd[c]} |->
                         IF f = client_fd[c] THEN next_ssid ELSE fd_to_ssid[f]]
    /\ assigned' = Append(assigned, next_ssid)
    /\ wstep' = [wstep EXCEPT ![c] = 0]
    /\ pc' = [pc EXCEPT ![c] = "helloSend"]
    /\ UNCHANGED <<conns, remote, clients, is_sniffer, frame, it, nread, caught,
                   total, sigpipe, wire, snap>>

\* a registration that pushes the client and lets go of the lock before
\* the SERVER_HELLO is sent
HelloLockRegisterFirst(c) ==
    /\ pc[c] = "helloLock"
    /\ mutex = 0
    /\ UNCHANGED mutex
    /\ clients' = Append(clients, [fd |-> client_fd[c], remote_ip |-> client_ip[c],
                                   ssid |-> next_ssid, is_sniffer |-> is_sniffer[c]])
    /\ ssid' = [ssid EXCEPT ![c] = next_ssid]
    /\ next_ssid' = NextSsid(next_ssid)
    /\ fd_to_ssid' = [f \in DOMAIN fd_to_ssid \cup {client_fd[c]} |->
                         IF f = client_fd[c] THEN next_ssid ELSE fd_to_ssid[f]]
    /\ assigned' = Append(assigned, next_ssid)
    /\ wstep' = [wstep EXCEPT ![c] = 0]
    /\ pc' = [pc EXCEPT ![c] = "helloSend"]
    /\ UNCHANGED <<conns, remote, ip_to_sniffer, next_sniffer_index, is_sniffer,
                   frame, it, nread, caught, total, sigpipe, wire, snap>>

\* std::lock_guard lock(clients_mutex); ip_to_sniffer; ssid = next_ssid++;
\* fd_to_ssid[client_fd] = ssid
HelloLock(c) ==
    /\ pc[c] = "helloLock"
    /\ mutex = 0
    /\ mutex' = c
    /\ IF is_sniffer[c] /\ client_ip[c] \notin DOMAIN ip_to_sniffer
       THEN /\ ip_to_sniffer' = [a \in DOMAIN ip_to_sniffer \cup {client_ip[c]} |->
                                    IF a = client_ip[c] THEN next_sniffer_index
                                    ELSE ip_to_sniffer[a]]
            /\ next_sniffer_index' = next_sniffer_index + 1
       ELSE UNCHANGED <<ip_to_sniffer, next_sniffer_index>>
    /\ ssid' = [ssid EXCEPT ![c] = next_ssid]
    /\ next_ssid' = NextSsid(next_ssid)
    /\ fd_to_ssid' = [f \in DOMAIN fd_to_ssid \cup {client_fd[c]} |->
                         IF f = client_fd[c] THEN next_ssid ELSE fd_to_ssid[f]]
    /\ assigned' = Append(assigned, next_ssid)
    /\ wstep' = [wstep EXCEPT ![c] = 0]
    /\ pc' = [pc EXCEPT ![c] = "helloSend"]
    /\ UNCHANGED <<conns, remote, clients, is_sniffer, frame, it, nread, caught,
                   total, sigpipe, wire, snap>>

\* an early return that leaves clients_mutex locked
ReturnKeepsLock(c) == UNCHANGED mutex

\* return; inside the block of the lock_guard: its destructor unlocks
ReturnUnlocks(c) == mutex' = 0

\* one write of sendFrame(client_fd, TYPE_SERVER_HELLO, response.dump());
\* on false: close(client_fd); return; on true: clients.push_back(...) and
\* the lock is released
HelloSend(c) ==
    /\ pc[c] = "helloSend"
    /\ ~Blocked(client_fd[c])
    /\ \E out \in HelloOutcomes(HelloLen(ssid[c]), wstep[c]) :
        CASE SendResult(out, wstep[c]) = "more" ->
               /\ wire' = Written(client_fd[c],
                             Chunk(c, TYPE_SERVER_HELLO, ssid[c], 0, wstep[c] + 1), out)
               /\ wstep' = [wstep EXCEPT ![c] = @ + 1]
               /\ UNCHANGED <<clients, mutex, pc, conns, remote, ssid,
                              is_sniffer, frame, it, nread, caught, snap, sigpipe>>
          [] SendResult(out, wstep[c]) = "true" ->
               /\ wire' = Written(client_fd[c],
                             Chunk(c, TYPE_SERVER_HELLO, ssid[c], 0, wstep[c] + 1), out)
               /\ clients' = Append(clients,
                                    [fd |-> client_fd[c], remote_ip |-> client_ip[c],
                                     ssid |-> ssid[c], is_sniffer |-> is_sniffer[c]])
               /\ mutex' = 0
               /\ pc' = [pc EXCEPT ![c] = IF is_sniffer[c] THEN "loop" ELSE "sleep"]
               /\ wstep' = [wstep EXCEPT ![c] = 0]
               /\ UNCHANGED <<conns, remote, ssid, is_sniffer, frame, it, nread, caught,
                              snap, sigpipe>>
          [] SendResult(out, wstep[c]) = "false" ->
               /\ Closed(c)
               /\ ReturnUnlocks(c)
               /\ UNCHANGED <<clients, sigpipe>>
          [] SendResult(out, wstep[c]) = "killed" ->
               /\ sigpipe' = c
               /\ UNCHANGED <<clients, mutex, pc, conns, remote, ssid, is_sniffer,
                              frame, it, nread, caught, snap, wire, wstep>>
    /\ UNCHANGED <<fd_to_ssid, ip_to_sniffer, next_ssid, next_sniffer_index,
                   assigned, total>>

\* the "ssid" a traffic record can carry itself: one the hub also assigns,
\* and one it does not
OwnSsids == {1, 9}

\* the frames a sniffer loop can read: type, whether the payload parses as
\* JSON, the "ssid" of the record in it, and the payload's length
LoopFrames ==
    [type : FrameTypes \cup {UnknownType}, json : BOOLEAN, own : OwnSsids, len : Lens]

\* json::parse(frame.payload): the record of the frame, which is the one at
\* position seq of the sniffer's stream and carries its own "ssid"
LogPayload(fr) == [seq |-> fr.seq, ssid |-> fr.own]

\* a forward that keeps the "ssid" the record came with
ForwardSsidOfRecord(n, log_payload) == log_payload.ssid

\* forward["ssid"] = ssid
ForwardSsid(n, log_payload) == n

\* the end of the try block: its locals go out of scope
LeaveTry(c) ==
    /\ pc' = [pc EXCEPT ![c] = "cleanup"]
    /\ ssid' = [ssid EXCEPT ![c] = 0]
    /\ is_sniffer' = [is_sniffer EXCEPT ![c] = FALSE]

\* a parse error that is swallowed: the loop goes on with the next frame
CaughtInLoop(c) ==
    /\ UNCHANGED <<pc, ssid, is_sniffer, caught>>

\* json::parse throws: catch (const std::exception& e) prints the error and
\* the worker is at the end of handleClient
Caught(c) ==
    /\ LeaveTry(c)
    /\ caught' = [caught EXCEPT ![c] = TRUE]

\* readFrame fails in the sniffer loop (end of stream or a framing error)
SnifferReadFail(c) ==
    /\ pc[c] = "loop"
    /\ LeaveTry(c)
    /\ nread' = [nread EXCEPT ![c] = 0]
    /\ UNCHANGED <<caught, registry, conns, remote, mutex, total, sigpipe, wire, frame, it,
                   wstep, snap>>

\* a loop that takes every frame that is no hello for a record
NotAHello(type) == type \notin {TYPE_CLIENT_HELLO, TYPE_SERVER_HELLO}

\* frame.type == TYPE_TRAFFIC_LOG
IsTrafficLog(type) == type = TYPE_TRAFFIC_LOG

\* a read that leaves the frame in the stream
ConsumeStuck(n) == n

\* the position in the sniffer's stream after one more frame was read
Consume(n) == n + 1

\* readFrame succeeds in the sniffer loop: a frame of another type is
\* ignored, json::parse of a TRAFFIC_LOG payload may throw, and otherwise
\* forward_str is built and the worker goes to the broadcast
SnifferReadFrame(c, f) ==
    /\ pc[c] = "loop"
    /\ total < MaxFrames
    /\ total' = total + 1
    /\ IF ~IsTrafficLog(f.type)
       THEN /\ nread' = [nread EXCEPT ![c] = Consume(@)]
            /\ UNCHANGED <<pc, frame, ssid, is_sniffer, caught>>
       ELSE IF ~f.json
       THEN /\ Caught(c)
            /\ nread' = [nread EXCEPT ![c] = 0]
            /\ UNCHANGED frame
       ELSE /\ nread' = [nread EXCEPT ![c] = Consume(@)]
            /\ frame' = [frame EXCEPT ![c] = [seq |-> Consume(nread[c]), len |-> f.len,
                                                own |-> f.own]]
            /\ pc' = [pc EXCEPT ![c] = "fanLock"]
            /\ UNCHANGED <<ssid, is_sniffer, caught>>
    /\ UNCHANGED <<registry, conns, remote, mutex, wire, it, wstep, snap, sigpipe>>

SnifferRead(c) == \E f \in LoopFrames : SnifferReadFrame(c, f)

\* a broadcast that does not take the lock
FanLockNoMutex(c) ==
    /\ pc[c] = "fanLock"
    /\ UNCHANGED mutex
    /\ it' = [it EXCEPT ![c] = NextViewer(clients, 1)]
    /\ wstep' = [wstep EXCEPT ![c] = 0]
    /\ snap' = [snap EXCEPT ![c] = clients]
    /\ pc' = [pc EXCEPT ![c] = "fan"]
    /\ UNCHANGED <<registry, conns, remote, ssid, is_sniffer, frame, nread, caught,
                   total, sigpipe, wire>>

\* std::lock_guard lock(clients_mutex) of the broadcast block, and the
\* loop's way to the first client that is not a sniffer
FanLock(c) ==
    /\ pc[c] = "fanLock"
    /\ mutex = 0
    /\ mutex' = c
    /\ it' = [it EXCEPT ![c] = NextViewer(clients, 1)]
    /\ wstep' = [wstep EXCEPT ![c] = 0]
    /\ snap' = [snap EXCEPT ![c] = clients]
    /\ pc' = [pc EXCEPT ![c] = "fan"]
    /\ UNCHANGED <<registry, conns, remote, ssid, is_sniffer, frame, nread, caught,
                   total, sigpipe, wire>>

\* where the loop over clients goes after sendFrame returned false: the
\* result is not looked at, the loop goes on with the next client
AfterFailedSend(cl, i) == NextViewer(cl, i + 1)

\* one write of sendFrame(c.fd, TYPE_FORWARD_LOG, forward_str) to the viewer
\* the loop is at
FanSend(c) ==
    /\ pc[c] = "fan"
    /\ it[c] <= Len(clients)
    /\ LET f == clients[it[c]].fd
           len == ForwardLen(ssid[c], frame[c].len)
       IN /\ (wstep[c] = 0 /\ TooLong(len)) \/ ~Blocked(f)
          /\ \E out \in SendOutcomes(f, len, wstep[c]) :
              /\ wire' = Written(f, Chunk(c, TYPE_FORWARD_LOG,
                                          ForwardSsid(ssid[c], LogPayload(frame[c])),
                                          LogPayload(frame[c]), wstep[c] + 1), out)
              /\ peer' = PeerAfter(f, out)
              /\ CASE SendResult(out, wstep[c]) = "more" ->
                        /\ wstep' = [wstep EXCEPT ![c] = @ + 1]
                        /\ UNCHANGED <<it, sigpipe>>
                   [] SendResult(out, wstep[c]) = "true" ->
                        /\ wstep' = [wstep EXCEPT ![c] = 0]
                        /\ it' = [it EXCEPT ![c] = NextViewer(clients, @ + 1)]
                        /\ UNCHANGED sigpipe
                   [] SendResult(out, wstep[c]) = "false" ->
                        /\ wstep' = [wstep EXCEPT ![c] = 0]
                        /\ it' = [it EXCEPT ![c] = AfterFailedSend(clients, @)]
                        /\ UNCHANGED sigpipe
                   [] SendResult(out, wstep[c]) = "killed" ->
                        /\ sigpipe' = c
                        /\ UNCHANGED <<wstep, it>>
    /\ UNCHANGED <<pc, registry, conns, stalled, mutex, ssid, is_sniffer,
                   frame, nread, caught, total, snap>>

\* the end of the broadcast block: the lock is released, the block's locals
\* go out of scope and the worker goes back to readFrame
FanUnlock(c) ==
    /\ pc[c] = "fan"
    /\ it[c] > Len(clients)
    /\ mutex' = 0
    /\ pc' = [pc EXCEPT ![c] = "loop"]
    /\ frame' = [frame EXCEPT ![c] = NoFrame]
    /\ it' = [it EXCEPT ![c] = 0]
    /\ snap' = [snap EXCEPT ![c] = <<>>]
    /\ UNCHANGED <<registry, conns, remote, ssid, is_sniffer, wstep, nread, caught,
                   total, sigpipe, wire>>

\* the viewer branch: while (true) sleep(1)
ViewerSleep(c) ==
    /\ pc[c] = "sleep"
    /\ UNCHANGED vars

\* an end of handleClient that closes the descriptor and erases nothing
CleanupNoErase(c) ==
    /\ pc[c] = "cleanup"
    /\ mutex = 0
    /\ Closed(c)
    /\ UNCHANGED <<registry, mutex, total, sigpipe>>

\* the end of handleClient: under the lock, erase the client, erase
\* fd_to_ssid[client_fd], close(client_fd)
Cleanup(c) ==
    /\ pc[c] = "cleanup"
    /\ mutex = 0
    /\ clients' = RemoveFd(clients, client_fd[c])
    /\ fd_to_ssid' = [f \in DOMAIN fd_to_ssid \ {client_fd[c]} |-> fd_to_ssid[f]]
    /\ Closed(c)
    /\ UNCHANGED <<ip_to_sniffer, next_ssid, next_sniffer_index, assigned,
                   mutex, total, sigpipe>>

\* ------------------------------------------------------------ the peers
\* the broadcast of worker w is at a viewer that is connection c
FanTarget(w, c) ==
    /\ pc[w] = "fan"
    /\ it[w] <= Len(clients)
    /\ fdOwner[clients[it[w]].fd] = c

\* a viewer closes its connection (or the connection breaks)
PeerClose(c) ==
    /\ UNCHANGED <<codec, sniffer, gui>>
    /\ sigpipe = 0
    /\ pc[c] = "sleep"
    /\ peer[c] = "open"
    /\ peer' = [peer EXCEPT ![c] = "closed"]
    /\ stalled' = [stalled EXCEPT ![c] = FALSE]
    /\ UNCHANGED <<pc, registry, conns, locals, mutex, total, sigpipe, wire>>

\* a viewer stops reading and its socket buffer fills up; this shows at the
\* hub only in a write, so it is taken when a broadcast is at the viewer
PeerStall(c) ==
    /\ UNCHANGED <<codec, sniffer, gui>>
    /\ sigpipe = 0
    /\ pc[c] = "sleep"
    /\ \E w \in Conn : FanTarget(w, c)
    /\ peer[c] = "open"
    /\ ~stalled[c]
    /\ stalled' = [stalled EXCEPT ![c] = TRUE]
    /\ UNCHANGED <<pc, registry, conns, locals, mutex, total, sigpipe, wire, peer>>

\* the viewer reads again
PeerDrain(c) ==
    /\ UNCHANGED <<codec, sniffer, gui>>
    /\ sigpipe = 0
    /\ stalled[c]
    /\ stalled' = [stalled EXCEPT ![c] = FALSE]
    /\ UNCHANGED <<pc, registry, conns, locals, mutex, total, sigpipe, wire, peer>>

\* ------------------------------------------------------- specifications
\* the steps of the worker of connection c; a process that SIGPIPE has ended
\* takes none
Worker(c) ==
    /\ UNCHANGED <<codec, sniffer, gui>>
    /\ sigpipe = 0
    /\ \/ ReadFirstFail(c) \/ ReadFirst(c) \/ HelloLock(c) \/ HelloSend(c)
       \/ SnifferReadFail(c) \/ SnifferRead(c) \/ FanLock(c) \/ FanSend(c)
       \/ FanUnlock(c) \/ ViewerSleep(c) \/ Cleanup(c)

Next ==
    \E c \in Conn :
        \/ Accept(c)
        \/ Worker(c)
        \/ PeerClose(c)
        \/ PeerStall(c)
        \/ PeerDrain(c)

Spec == Init /\ [][Next]_vars

\* Every worker is a thread of its own that the scheduler keeps running; the
\* remote ends are under no obligation.
FairSpec == Spec /\ \A c \in Conn : WF_vars(Worker(c))

\* The hub with at most MaxLockFrames frames read, for the lock's liveness.
LockWorker(c) == Worker(c) /\ total' <= MaxLockFrames

LockNext ==
    \E c \in Conn :
        \/ Accept(c)
        \/ LockWorker(c)
        \/ PeerClose(c)
        \/ PeerStall(c)
        \/ PeerDrain(c)

\* Every worker is a thread of its own. A write(2) that waits for room in
\* the socket buffer is resumed by the kernel when the remote end reads, and
\* a thread that waits in lock() is woken when the mutex is unlocked: a step
\* that can be taken again and again is taken. With the frames bounded the
\* lock is taken finitely often, so no worker is overtaken for ever and the
\* order among the waiters, which std::mutex leaves open, does not matter.
LockSpec == Init /\ [][LockNext]_vars /\ \A c \in Conn : SF_vars(LockWorker(c))

\* The hub after a long life: 0xFFFFFFFD registrations have come and gone
\* (sniffers that registered and disconnected), the registry is empty again
\* and the counter stands two below its maximum. The history of SSIDs starts
\* afresh here.
WrapInit ==
    /\ pc = [c \in Conn |-> "idle"]
    /\ client_fd = [c \in Conn |-> 0]
    /\ client_ip = [c \in Conn |-> "127.0.0.1"]
    /\ fdOwner = [f \in FDs |-> 0]
    /\ clients = <<>>
    /\ fd_to_ssid = [f \in {} |-> 0]
    /\ ip_to_sniffer = [a \in IPs |-> 1]
    /\ next_ssid = UINT32_MAX - 1
    /\ next_sniffer_index = 2
    /\ mutex = 0
    /\ ssid = [c \in Conn |-> 0]
    /\ is_sniffer = [c \in Conn |-> FALSE]
    /\ frame = [c \in Conn |-> NoFrame]
    /\ it = [c \in Conn |-> 0]
    /\ wstep = [c \in Conn |-> 0]
    /\ nread = [c \in Conn |-> 0]
    /\ total = 0
    /\ wire = [c \in Conn |-> <<>>]
    /\ peer = [c \in Conn |-> "open"]
    /\ stalled = [c \in Conn |-> FALSE]
    /\ sigpipe = 0
    /\ assigned = <<>>
    /\ snap = [c \in Conn |-> <<>>]
    /\ caught = [c \in Conn |-> FALSE]
    /\ CodecIdle
    /\ SnifferIdle
    /\ TableEmpty

WrapSpec == WrapInit /\ [][Next]_vars

\* ---------------------------------------------------------------- codec
\* the payloads given to the encoder: every content up to MaxSmall bytes over
\* a byte that equals the version, one that equals the terminator and 0xFF,
\* one content for each length around the limit, and a payload whose bytes
\* are those of a frame (an ERROR frame with no payload)
PayloadBytes == {PROTOCOL_VERSION, TERM_BYTE, 255}
LongLens == {MaxPayload - 1, MaxPayload, MaxPayload + 1, MaxPayload + 256}
Pattern(n) == [i \in 1..n |-> IF i % 7 = 0 THEN TERM_BYTE ELSE i % 256]
SmallPayloads == UNION {[1..n -> PayloadBytes] : n \in 0..MaxSmall}
Payloads == SmallPayloads \cup {Pattern(n) : n \in LongLens}
                \cup {<<PROTOCOL_VERSION, TYPE_ERROR, 0, 0, TERM_BYTE>>}

\* header[2] = (payload.length() >> 8) & 0xFF with every high byte 0
LenHiZero(n) == 0

\* header[2] = (payload.length() >> 8) & 0xFF
LenHi(n) == (n \div 256) % 256

\* header[3] = payload.length() & 0xFF
LenLo(n) == n % 256

Header(type, n) == <<PROTOCOL_VERSION, type, LenHi(n), LenLo(n)>>

\* the bytes sendFrame writes: none for a payload it rejects, else header,
\* payload and terminator (the three writes, on a transport that takes them)
SendFrameBytes(type, payload) ==
    IF TooLong(Len(payload)) THEN <<>>
    ELSE Header(type, Len(payload)) \o payload \o <<TERM_BYTE>>

\* a version test that lets every version through
AnyVersion(v) == TRUE

\* version != PROTOCOL_VERSION
VersionOk(v) == v = PROTOCOL_VERSION

\* uint16_t length = (header[2] << 8) | header[3]
Length(hi, lo) == hi * 256 + lo

\* length > 1024 in the decoders
Oversized(length) == length > MaxPayload

\* int total_size = HEADER_SIZE + length + 1
TotalSize(length) == HEADER_SIZE + length + 1

\* a blocking readFrame that reads the terminator and does not look at it
ReadFrameHubAnyTerm(s) ==
    IF Len(s) < HEADER_SIZE
    THEN [ok |-> FALSE, err |-> FALSE, type |-> 0, payload |-> <<>>, used |-> Len(s)]
    ELSE IF ~VersionOk(s[1]) \/ Oversized(Length(s[3], s[4]))
    THEN [ok |-> FALSE, err |-> TRUE, type |-> s[2], payload |-> <<>>, used |-> HEADER_SIZE]
    ELSE IF Len(s) < TotalSize(Length(s[3], s[4]))
    THEN [ok |-> FALSE, err |-> FALSE, type |-> s[2], payload |-> <<>>, used |-> Len(s)]
    ELSE [ok |-> TRUE, err |-> FALSE, type |-> s[2],
          payload |-> SubSeq(s, HEADER_SIZE + 1, HEADER_SIZE + Length(s[3], s[4])),
          used |-> TotalSize(Length(s[3], s[4]))]

\* the hub's readFrame on the bytes s that are still to come before the end
\* of the stream: whether it returns true, whether it found a framing error,
\* the frame, and the bytes it has read
ReadFrameHub(s) ==
    IF Len(s) < HEADER_SIZE
    THEN [ok |-> FALSE, err |-> FALSE, type |-> 0, payload |-> <<>>, used |-> Len(s)]
    ELSE IF ~VersionOk(s[1])
    THEN [ok |-> FALSE, err |-> TRUE, type |-> 0, payload |-> <<>>, used |-> HEADER_SIZE]
    ELSE LET length == Length(s[3], s[4]) IN
         IF Oversized(length)
         THEN [ok |-> FALSE, err |-> TRUE, type |-> s[2], payload |-> <<>>,
               used |-> HEADER_SIZE]
         ELSE IF Len(s) < TotalSize(length)
         THEN [ok |-> FALSE, err |-> FALSE, type |-> s[2], payload |-> <<>>,
               used |-> Len(s)]
         ELSE IF s[TotalSize(length)] # TERM_BYTE
         THEN [ok |-> FALSE, err |-> TRUE, type |-> s[2], payload |-> <<>>,
               used |-> TotalSize(length)]
         ELSE [ok |-> TRUE, err |-> FALSE, type |-> s[2],
               payload |-> SubSeq(s, HEADER_SIZE + 1, HEADER_SIZE + length),
               used |-> TotalSize(length)]

\* a return that throws the buffered bytes away
DropIncomplete(buf) == <<>>

\* return false; // Incomplete - wait for more data
WaitForMore(buf) == buf

\* while (readFrame(client_fd, frame)) on the bytes s: the frames it gives
\* until readFrame returns false, and whether that was for a framing error
RECURSIVE HubDecode(_, _)
HubDecode(s, acc) ==
    LET r == ReadFrameHub(s) IN
    IF r.ok
    THEN HubDecode(SubSeq(s, r.used + 1, Len(s)),
                   Append(acc, [type |-> r.type, payload |-> r.payload]))
    ELSE [out |-> acc, err |-> r.err]

\* SnifferClient::readFrame on read_buffer_ = buf: whether it returns true,
\* whether it found a framing error, the frame, and read_buffer_ afterwards
ReadFrameClient(buf) ==
    IF Len(buf) < HEADER_SIZE
    THEN [ok |-> FALSE, err |-> FALSE, type |-> 0, payload |-> <<>>,
          buf |-> WaitForMore(buf)]
    ELSE IF ~VersionOk(buf[1])
    THEN [ok |-> FALSE, err |-> TRUE, type |-> 0, payload |-> <<>>, buf |-> <<>>]
    ELSE LET length == Length(buf[3], buf[4]) IN
         IF Oversized(length)
         THEN [ok |-> FALSE, err |-> TRUE, type |-> buf[2], payload |-> <<>>,
               buf |-> <<>>]
         ELSE IF Len(buf) < TotalSize(length)
         THEN [ok |-> FALSE, err |-> FALSE, type |-> buf[2], payload |-> <<>>,
               buf |-> WaitForMore(buf)]
         ELSE IF buf[HEADER_SIZE + length + 1] # TERM_BYTE
         THEN [ok |-> FALSE, err |-> TRUE, type |-> buf[2], payload |-> <<>>,
               buf |-> <<>>]
         ELSE [ok |-> TRUE, err |-> FALSE, type |-> buf[2],
               payload |-> SubSeq(buf, HEADER_SIZE + 1, HEADER_SIZE + length),
               buf |-> SubSeq(buf, TotalSize(length) + 1, Len(buf))]

\* two JSON documents: {"ssid":1,"log":{}} and {}
ForwardDoc ==
    <<123, 34, 115, 115, 105, 100, 34, 58, 49, 44, 34, 108, 111, 103, 34, 58, 123, 125, 125>>

EmptyDoc == <<123, 125>>

\* json::parse of a payload, for the payloads of this model: the two
\* documents parse, every other payload makes it throw
JsonParse(payload) ==
    IF payload = ForwardDoc
    THEN [ok |-> TRUE, fields |-> {"ssid", "log"}, ssid |-> 1, log |-> EmptyDoc]
    ELSE IF payload = EmptyDoc
    THEN [ok |-> TRUE, fields |-> {}, ssid |-> 0, log |-> <<>>]
    ELSE [ok |-> FALSE, fields |-> {}, ssid |-> 0, log |-> <<>>]

\* processFrame: frame.type == Protocol::FORWARD_LOG
IsForwardLog(type) == type = TYPE_FORWARD_LOG

\* SnifferClient::processFrame: the records it emits, none or one
ProcessFrame(f) ==
    IF IsForwardLog(f.type)
    THEN LET d == JsonParse(f.payload) IN
         IF d.ok /\ {"ssid", "log"} \subseteq d.fields
         THEN <<[ssid |-> d.ssid, log |-> d.log]>>
         ELSE <<>>
    ELSE <<>>

RECURSIVE ProcessAll(_)
ProcessAll(fs) ==
    IF fs = <<>> THEN <<>> ELSE ProcessFrame(Head(fs)) \o ProcessAll(Tail(fs))

\* an onReadyRead that calls readFrame once for each chunk
DrainOnce(buf, acc) ==
    LET r == ReadFrameClient(buf) IN
    IF r.ok THEN [buf |-> r.buf, err |-> FALSE,
                  out |-> Append(acc, [type |-> r.type, payload |-> r.payload])]
    ELSE [buf |-> r.buf, out |-> acc, err |-> r.err]

\* onReadyRead's loop while (readFrame(frame)) processFrame(frame): the
\* buffer it leaves, the frames it hands on, and whether it met an error
RECURSIVE Drain(_, _)
Drain(buf, acc) ==
    LET r == ReadFrameClient(buf) IN
    IF r.ok THEN Drain(r.buf, Append(acc, [type |-> r.type, payload |-> r.payload]))
    ELSE [buf |-> r.buf, out |-> acc, err |-> r.err]

\* the i-th valid frame that follows on the same connection, and the bytes
\* of the first n of them
TailRecord(i) == [type |-> TYPE_ERROR, payload |-> <<i>>]

TailFrame(i) == SendFrameBytes(TailRecord(i).type, TailRecord(i).payload)

\* what can happen to the bytes of a frame on the way: nothing, or a sender
\* that puts another version, a length above the limit or another
\* terminator, or ("relen", for a frame of a few bytes) a length field that
\* has become another length within the limit: none, one more, or as many
\* more as the next frame has bytes
FaultKinds == {"none", "version", "length", "term", "relen"}

Damaged(kind, b) ==
    IF kind = "version" THEN {[b EXCEPT ![1] = v] : v \in {0, 2}}
    ELSE IF kind = "length" THEN {[b EXCEPT ![3] = 4, ![4] = 1]}
    ELSE IF kind = "term" THEN {[b EXCEPT ![Len(b)] = 0]}
    ELSE IF kind = "relen"
    THEN IF Len(b) > SmallStream THEN {}
         ELSE {[b EXCEPT ![4] = n] :
                  n \in {0, b[4] + 1, b[4] + Len(TailFrame(1))} \ {b[4]}}
    ELSE {b}

RECURSIVE Tails(_)
Tails(n) == IF n = 0 THEN <<>> ELSE Tails(n - 1) \o TailFrame(n)

\* the three regions sendFrame writes, one write(2) call each
Regions(type, payload) ==
    <<Header(type, Len(payload)), payload, <<TERM_BYTE>>>>

\* sendFrame returns true when none of its three writes came back short
AllWritten(n) == n = 3

\* the bytes on the transport after sendFrame's writes, of which the
\* transport takes the first w.ok whole and w.part bytes of the next
RECURSIVE WrittenBytes(_, _, _)
WrittenBytes(regions, w, k) ==
    IF k > 3 THEN <<>>
    ELSE IF k <= w.ok THEN regions[k] \o WrittenBytes(regions, w, k + 1)
    ELSE IF w.part <= Len(regions[k]) THEN SubSeq(regions[k], 1, w.part)
    ELSE <<>>

\* the sizes in which the next bytes can arrive when p bytes have come and
\* rem are to come: every size for a short rest; for a long one single bytes
\* within the header, then 1000 bytes, all but the last byte, or all
ChunkSizes(p, rem) ==
    IF rem <= SmallStream THEN 1..rem
    ELSE IF p < HEADER_SIZE THEN {1, rem - 1, rem}
    ELSE {k \in {1000, rem - 1, rem} : k <= rem}

CodecInit ==
    /\ HubInit
    /\ TableEmpty
    /\ tx \in [type : FrameTypes, payload : Payloads]
    /\ writes \in [ok : 0..3, part : 0..1, end : {"returns", "signal"}]
    /\ writes.ok = 3 => writes.part = 0 /\ writes.end = "returns"
    /\ writes.end = "signal" => writes.part = 0
    /\ sendOk = "none"
    /\ chan = <<>>
    /\ stream = <<>>
    /\ fault = [kind |-> "none", tail |-> 0]
    /\ role = "none"
    /\ pos = 0
    /\ read_buffer_ = <<>>
    /\ frames = <<>>
    /\ emitted = <<>>
    /\ open = TRUE
    /\ failed = -1
    /\ cpc = "send"
    /\ SnifferIdle

\* sendFrame(type, payload): the length test, then the three writes, of
\* which the first that comes back short ends the call with false. A write
\* to a peer that has gone raises SIGPIPE, for which no caller of sendFrame
\* installs a handler: the process ends inside the call.
SendFrame ==
    /\ cpc = "send"
    /\ LET long == TooLong(Len(tx.payload))
           whole == ~long /\ AllWritten(writes.ok)
           killed == ~long /\ ~AllWritten(writes.ok) /\ writes.end = "signal" IN
        /\ sendOk' = IF whole THEN "true" ELSE IF killed THEN "none" ELSE "false"
        /\ cpc' = IF whole THEN "travel" ELSE IF killed THEN "killed" ELSE "end"
    /\ chan' = IF TooLong(Len(tx.payload)) THEN <<>>
               ELSE WrittenBytes(Regions(tx.type, tx.payload), writes, 1)
    /\ UNCHANGED <<hub, sniffer, gui, tx, writes, stream, fault, role, pos, read_buffer_, frames, emitted, open, failed>>

\* the bytes reach a decoder
Travel ==
    /\ cpc = "travel"
    /\ \E k \in FaultKinds : \E tl \in 0..MaxTail : \E r \in {"hub", "viewer"} :
       \E b \in Damaged(k, chan) :
        /\ stream' = b \o Tails(tl)
        /\ fault' = [kind |-> k, tail |-> tl]
        /\ role' = r
    /\ cpc' = "decode"
    /\ UNCHANGED <<hub, sniffer, gui, tx, writes, sendOk, chan, pos, read_buffer_, frames, emitted, open, failed>>

\* the hub's while (readFrame(client_fd, frame)): one call; when it returns
\* false the worker leaves the loop and closes the connection
HubReadFrame ==
    /\ cpc = "decode"
    /\ role = "hub"
    /\ open
    /\ LET r == ReadFrameHub(SubSeq(stream, pos + 1, Len(stream))) IN
        /\ pos' = pos + r.used
        /\ frames' = IF r.ok THEN Append(frames, [type |-> r.type, payload |-> r.payload])
                     ELSE frames
        /\ open' = r.ok
        /\ failed' = IF r.err THEN pos + r.used ELSE failed
    /\ UNCHANGED <<hub, sniffer, gui, tx, writes, sendOk, chan, stream, fault, role, read_buffer_,
                   emitted, cpc>>

\* SnifferClient::onReadyRead with the next k bytes: the frames the buffer
\* holds are taken out and each goes through processFrame
OnReadyRead(k) ==
    /\ cpc = "decode"
    /\ role = "viewer"
    /\ open
    /\ k \in ChunkSizes(pos, Len(stream) - pos)
    /\ LET d == Drain(read_buffer_ \o SubSeq(stream, pos + 1, pos + k), <<>>) IN
        /\ read_buffer_' = d.buf
        /\ frames' = frames \o d.out
        /\ emitted' = emitted \o ProcessAll(d.out)
        /\ failed' = IF d.err /\ failed = -1 THEN pos + k ELSE failed
    /\ pos' = pos + k
    /\ UNCHANGED <<hub, sniffer, gui, tx, writes, sendOk, chan, stream, fault, role, open, cpc>>

\* an onDisconnected that leaves read_buffer_ as it is
OnDisconnectedKeepsBuffer ==
    /\ cpc = "decode"
    /\ role = "viewer"
    /\ open
    /\ open' = FALSE
    /\ UNCHANGED <<hub, sniffer, gui, tx, writes, sendOk, chan, stream, fault, role, pos,
                   read_buffer_, frames, emitted, failed, cpc>>

\* SnifferClient::onDisconnected
OnDisconnected ==
    /\ cpc = "decode"
    /\ role = "viewer"
    /\ open
    /\ open' = FALSE
    /\ read_buffer_' = <<>>
    /\ UNCHANGED <<hub, sniffer, gui, tx, writes, sendOk, chan, stream, fault, role, pos, frames,
                   emitted, failed, cpc>>

CodecNext ==
    \/ SendFrame
    \/ Travel
    \/ HubReadFrame
    \/ \E k \in 1..(MaxPayload + HEADER_SIZE + 8) : OnReadyRead(k)
    \/ OnDisconnected

CodecSpec == CodecInit /\ [][CodecNext]_vars

\* The viewer connects again after a disconnect (connectToServer, then
\* onConnected): neither touches read_buffer_. On the new connection the hub
\* sends one valid frame; frames, emitted and failed start afresh with it.
OnConnected ==
    /\ cpc = "decode"
    /\ role = "viewer"
    /\ ~open
    /\ open' = TRUE
    /\ stream' = Tails(1)
    /\ pos' = 0
    /\ frames' = <<>>
    /\ emitted' = <<>>
    /\ failed' = -1
    /\ UNCHANGED <<hub, sniffer, gui, tx, writes, sendOk, chan, fault, role, read_buffer_, cpc>>

\* short FORWARD_LOG frames that the transport takes whole, with connections
\* that end and are made again
ReconnectInit ==
    /\ CodecInit
    /\ tx.type = TYPE_FORWARD_LOG
    /\ Len(tx.payload) <= MaxSmall
    /\ writes.ok = 3

ReconnectNext == CodecNext \/ OnConnected

ReconnectSpec == ReconnectInit /\ [][ReconnectNext]_vars

\* One frame of any type, with a payload that is a FORWARD_LOG document, an
\* empty document or nothing, goes to a decoder; when that is over, the hub
\* takes its connections, whose peers stay connected and read.
IgnoreInit ==
    /\ HubInit
    /\ TableEmpty
    /\ SnifferIdle
    /\ tx \in [type : FrameTypes \cup {UnknownType}, payload : {<<>>, EmptyDoc, ForwardDoc}]
    /\ writes = [ok |-> 3, part |-> 0, end |-> "returns"]
    /\ sendOk = "none"
    /\ chan = <<>>
    /\ stream = <<>>
    /\ fault = [kind |-> "none", tail |-> 0]
    /\ role = "none"
    /\ pos = 0
    /\ read_buffer_ = <<>>
    /\ frames = <<>>
    /\ emitted = <<>>
    /\ open = TRUE
    /\ failed = -1
    /\ cpc = "send"

\* SnifferClient::disconnect: the viewer's session is over and what is
\* known of it is dropped
Disconnect ==
    /\ cpc \in {"decode", "end", "killed"}
    /\ tx' = [type |-> 0, payload |-> <<>>]
    /\ writes' = [ok |-> 3, part |-> 0, end |-> "returns"]
    /\ sendOk' = "none"
    /\ chan' = <<>>
    /\ stream' = <<>>
    /\ fault' = [kind |-> "none", tail |-> 0]
    /\ role' = "none"
    /\ pos' = 0
    /\ read_buffer_' = <<>>
    /\ frames' = <<>>
    /\ emitted' = <<>>
    /\ open' = TRUE
    /\ failed' = -1
    /\ cpc' = "off"
    /\ UNCHANGED <<hub, sniffer, gui>>

\* the decoder, its end, then the hub with peers that neither close nor stall
IgnoreNext ==
    \/ CodecNext
    \/ Disconnect
    \/ cpc = "off" /\ \E c \in Conn : Accept(c) \/ Worker(c)

IgnoreSpec == IgnoreInit /\ [][IgnoreNext]_vars

\* ------------------------------------------------------- PacketParser
\* The protocol decoders of PacketParser.cpp, on one packet slice. A decoder
\* gives the offsets of the slice it reads, the decoders it calls and the
\* lines it prints, each line as a record of its fields.

\* sizes of the header structures of the system's network headers
SizeofEtherHeader == 14
SizeofIp == 20
SizeofTcphdr == 20
SizeofUdphdr == 8
SizeofIcmp == 28

ETHERTYPE_IP == 2048
ETHERTYPE_ARP == 2054
IPPROTO_ICMP == 1
IPPROTO_TCP == 6
IPPROTO_UDP == 17
IPPROTO_GRE == 47
ICMP_ECHOREPLY == 0
ICMP_UNREACH == 3
ICMP_ECHO == 8

\* the byte at an offset of the slice, counted from 0
ByteAt(p, i) == IF i < Len(p) THEN p[i + 1] ELSE 0

\* ntohs of the two bytes at an offset
Ntohs(p, i) == 256 * ByteAt(p, i) + ByteAt(p, i + 1)

\* operator<< of an int: its decimal digits
RECURSIVE Decimal(_)
Decimal(n) == IF n < 10 THEN <<n>> ELSE Append(Decimal(n \div 10), n % 10)

\* inet_ntop of the four bytes at an offset: the four numbers of the
\* dotted quad
InetNtop(p, i) == <<Decimal(ByteAt(p, i)), Decimal(ByteAt(p, i + 1)),
                    Decimal(ByteAt(p, i + 2)), Decimal(ByteAt(p, i + 3))>>

\* a decoder that returns without a line
Dropped(name) == [reads |-> {}, calls |-> {name}, out |-> <<>>]

\* a decoder's own reads, put before what the decoder it called did
After(name, reads, r) ==
    [reads |-> reads \cup r.reads, calls |-> {name} \cup r.calls, out |-> r.out]

\* parseICMP
ParseICMP(p, offset, src_ip, dst_ip) ==
    IF offset + SizeofIcmp > Len(p) THEN Dropped("parseICMP")
    ELSE LET icmp_type == ByteAt(p, offset)
             icmp_code == ByteAt(p, offset + 1)
             echo == icmp_type = ICMP_ECHO \/ icmp_type = ICMP_ECHOREPLY
             line == [protocol |-> "ICMP", src |-> src_ip, dst |-> dst_ip,
                      icmp_type |-> icmp_type, icmp_code |-> icmp_code,
                      length |-> Len(p) - offset]
         IN  [reads |-> {offset, offset + 1}
                          \cup (IF echo THEN (offset + 4)..(offset + 7) ELSE {}),
              calls |-> {"parseICMP"},
              out |-> <<IF echo
                        THEN line @@ [icmp_id |-> Ntohs(p, offset + 4),
                                      icmp_seq |-> Ntohs(p, offset + 6)]
                        ELSE line>>]

\* a TCP length that counts the whole capture
TCPLengthWhole(p, offset) == Len(p)

\* parseTCP: the length it prints
TCPLength(p, offset) == Len(p) - offset

\* parseTCP
ParseTCP(p, offset, src_ip, dst_ip) ==
    IF offset + SizeofTcphdr > Len(p) THEN Dropped("parseTCP")
    ELSE [reads |-> offset..(offset + 3),
          calls |-> {"parseTCP"},
          out |-> <<[protocol |-> "TCP", src |-> src_ip, dst |-> dst_ip,
                     src_port |-> Ntohs(p, offset),
                     dst_port |-> Ntohs(p, offset + 2),
                     length |-> TCPLength(p, offset)]>>]

\* a parseUDP that makes sure of the two ports only
UDPPortsOnly(p, offset) == offset + 4 > Len(p)

\* parseUDP: the header is not all there
UDPTruncated(p, offset) == offset + SizeofUdphdr > Len(p)

\* parseUDP
ParseUDP(p, offset, src_ip, dst_ip) ==
    IF UDPTruncated(p, offset) THEN Dropped("parseUDP")
    ELSE [reads |-> offset..(offset + 5),
          calls |-> {"parseUDP"},
          out |-> <<[protocol |-> "UDP", src |-> src_ip, dst |-> dst_ip,
                     src_port |-> Ntohs(p, offset),
                     dst_port |-> Ntohs(p, offset + 2),
                     length |-> Ntohs(p, offset + 4)]>>]

\* ip_hdr->ip_hl, the low four bits of the header's first byte
IpHl(p, offset) == ByteAt(p, offset) % 16

\* parseIPv4
ParseIPv4(p, offset) ==
    IF offset + SizeofIp > Len(p) THEN Dropped("parseIPv4")
    ELSE LET ip_hdr_len == IpHl(p, offset) * 4 IN
         IF offset + ip_hdr_len > Len(p)
         THEN After("parseIPv4", {offset}, [reads |-> {}, calls |-> {}, out |-> <<>>])
         ELSE LET src_ip == InetNtop(p, offset + 12)
                  dst_ip == InetNtop(p, offset + 16)
                  transport_offset == offset + ip_hdr_len
                  ip_p == ByteAt(p, offset + 9)
                  own == {offset, offset + 9} \cup (offset + 12)..(offset + 19)
              IN  IF ip_p = IPPROTO_ICMP
                  THEN After("parseIPv4", own, ParseICMP(p, transport_offset, src_ip, dst_ip))
                  ELSE IF ip_p = IPPROTO_TCP
                  THEN After("parseIPv4", own, ParseTCP(p, transport_offset, src_ip, dst_ip))
                  ELSE IF ip_p = IPPROTO_UDP
                  THEN After("parseIPv4", own, ParseUDP(p, transport_offset, src_ip, dst_ip))
                  ELSE [reads |-> own \cup {offset + 2, offset + 3},
                        calls |-> {"parseIPv4"},
                        out |-> <<[protocol |-> Decimal(ip_p), src |-> src_ip,
                                   dst |-> dst_ip, length |-> Ntohs(p, offset + 2)]>>]

\* parseEthernet
ParseEthernet(p) ==
    IF Ntohs(p, 12) = ETHERTYPE_IP
    THEN After("parseEthernet", {12, 13}, ParseIPv4(p, SizeofEtherHeader))
    ELSE [reads |-> {12, 13}, calls |-> {"parseEthernet"}, out |-> <<>>]

\* parseAndPrint
ParseAndPrint(p) ==
    IF Len(p) < SizeofEtherHeader THEN Dropped("parseAndPrint")
    ELSE After("parseAndPrint", {}, ParseEthernet(p))

\* the packets that are decoded: a frame of MaxCap bytes with the fields the
\* decoders look at set to the given values, cut to every length
Ihls == {0, 4, 5, 6, 15}

Framed(ethertype, ihl, proto, first) ==
    [i \in 1..MaxCap |->
        LET o == i - 1 IN
        IF o = 12 THEN ethertype \div 256
        ELSE IF o = 13 THEN ethertype % 256
        ELSE IF o = SizeofEtherHeader THEN 64 + ihl
        ELSE IF o = SizeofEtherHeader + 2 THEN 0
        ELSE IF o = SizeofEtherHeader + 3 THEN 40
        ELSE IF o = SizeofEtherHeader + 9 THEN proto
        ELSE IF o = SizeofEtherHeader + 4 * ihl /\ ihl >= 5 THEN first
        ELSE (7 * o + 3) % 256]

Packets ==
    {SubSeq(Framed(e, h, q, f), 1, n) :
        e \in {ETHERTYPE_IP, ETHERTYPE_ARP}, h \in Ihls,
        q \in {IPPROTO_ICMP, IPPROTO_TCP, IPPROTO_UDP, IPPROTO_GRE},
        f \in {ICMP_ECHOREPLY, ICMP_UNREACH, ICMP_ECHO}, n \in 0..MaxCap}

DecodeInit ==
    /\ HubInit
    /\ TableEmpty
    /\ CodecIdle
    /\ CaptureIdle
    /\ AgentIdle
    /\ packet \in Packets
    /\ touched = {}
    /\ invoked = {}
    /\ output = <<>>
    /\ ppc = "parse"

\* PacketParser::parseAndPrint(packet, caplen, timestamp)
ParseAndPrintCall ==
    /\ ppc = "parse"
    /\ LET r == ParseAndPrint(packet) IN
        /\ touched' = r.reads
        /\ invoked' = r.calls
        /\ output' = r.out
    /\ ppc' = "done"
    /\ UNCHANGED <<hub, codec, gui, capture, agent, packet>>

DecodeNext == ParseAndPrintCall

DecodeSpec == DecodeInit /\ [][DecodeNext]_vars


\* ------------------------------------------------- Sniffer::doReadLoop
\* The walk over one batch of the BPF device. struct bpf_hdr has bh_tstamp
\* (two 32-bit fields) at offset 0, bh_caplen (32 bits) at 8, bh_datalen
\* (32 bits) at 12 and bh_hdrlen (16 bits) at 16, in the byte order of the
\* machine, the low byte first.
OffCaplen == 8
OffHdrlen == 16

\* the bytes a capture header needs for its own fields
MinHdrlen == OffHdrlen + 2

\* BPF_WORDALIGN(x) = ((x + 3) & ~3)
BPF_WORDALIGN(x) == ((x + 3) \div 4) * 4

\* what a read past the end of buffer_ can give
Garbage == {0, MinHdrlen}

\* a field of w bytes of *bh, bh at offset o of buffer_
Field(buf, o, w) ==
    IF o + w > Len(buf) THEN Garbage
    ELSE {IF w = 2 THEN buf[o + 1] + 256 * buf[o + 2]
          ELSE buf[o + 1] + 256 * (buf[o + 2] + 256 * (buf[o + 3] + 256 * buf[o + 4]))}

\* the batches read(2) leaves in buffer_: capture records, each a header
\* that gives hdrlen and caplen, the packet bytes and the padding, one after
\* the other; zero bytes up to the length of the buffer
HdrLens == {0, 4, MinHdrlen, MinHdrlen + 2}

CapLens == {0, 3, 14}

Zeros(n) == [i \in 1..n |-> 0]

RecordBytes(h, c) ==
    LET body == <<1, 0, 0, 0, 2, 0, 0, 0, c, 0, 0, 0, c, 0, 0, 0, h, 0>>
                    \o Zeros(IF h > MinHdrlen THEN h - MinHdrlen ELSE 0)
                    \o [i \in 1..c |-> 1]
    IN body \o Zeros(BPF_WORDALIGN(Len(body)) - Len(body))

RECURSIVE Layouts(_)
Layouts(n) ==
    IF n = 0 THEN {<<>>}
    ELSE {RecordBytes(h, c) \o rest : h \in HdrLens, c \in CapLens, rest \in Layouts(n - 1)}

Fill(b) == IF Len(b) >= BufSize THEN SubSeq(b, 1, BufSize)
           ELSE b \o Zeros(BufSize - Len(b))

Batches == {Fill(b) : b \in UNION {Layouts(n) : n \in 1..MaxRecords}}

WalkInit ==
    /\ HubInit
    /\ TableEmpty
    /\ CodecIdle
    /\ DecoderIdle
    /\ AgentIdle
    /\ buffer_ = Zeros(BufSize)
    /\ bytes_read = 0
    /\ ptr = 0
    /\ wk = "read"
    /\ last = NoStep
    /\ handed = {}
    /\ batches = 0

\* read(fd_, buffer_.data(), buffer_.size()): nothing or an error, and the
\* loop goes round; or a batch of n bytes, and the walk begins
ReadBatch ==
    /\ wk = "read"
    /\ batches < MaxBatches
    /\ \E n \in (-1)..BufSize :
        IF n <= 0 THEN UNCHANGED <<capture, output>>
        ELSE \E b \in Batches :
            /\ buffer_' = b
            /\ bytes_read' = n
            /\ ptr' = 0
            /\ wk' = "walk"
            /\ last' = NoStep
            /\ handed' = {}
            /\ batches' = batches + 1
            /\ UNCHANGED output
    /\ UNCHANGED <<hub, codec, gui, agent, packet, touched, invoked, ppc>>

\* one turn of while (ptr < end): the two tests, the call of the parser and
\* the step to the next record
WalkStep ==
    /\ wk = "walk"
    /\ ptr < bytes_read
    /\ \E bh_hdrlen \in Field(buffer_, ptr + OffHdrlen, 2) :
       \E bh_caplen \in Field(buffer_, ptr + OffCaplen, 4) :
        LET found == [p |-> ptr, hdrlen |-> bh_hdrlen, caplen |-> bh_caplen,
                      top |-> ptr + OffHdrlen + 1, stop |-> TRUE, hand |-> FALSE]
            at == ptr + bh_hdrlen IN
        IF ptr + bh_hdrlen > bytes_read \/ at + bh_caplen > bytes_read
        THEN /\ last' = found
             /\ wk' = "read"
             /\ UNCHANGED <<buffer_, bytes_read, ptr, handed, batches, output>>
        ELSE /\ last' = [found EXCEPT !.stop = FALSE, !.hand = TRUE]
             /\ handed' = handed \cup {[at |-> at, caplen |-> bh_caplen]}
             /\ output' = output \o ParseAndPrint(SubSeq(buffer_, at + 1, at + bh_caplen)).out
             /\ ptr' = ptr + BPF_WORDALIGN(bh_hdrlen + bh_caplen)
             /\ UNCHANGED <<buffer_, bytes_read, wk, batches>>
    /\ UNCHANGED <<hub, codec, gui, agent, packet, touched, invoked, ppc>>

\* ptr has reached end: back to read
WalkEnd ==
    /\ wk = "walk"
    /\ ptr >= bytes_read
    /\ wk' = "read"
    /\ UNCHANGED <<hub, codec, gui, decoder, agent, buffer_, bytes_read, ptr, last, handed, batches>>

WalkNext == ReadBatch \/ WalkStep \/ WalkEnd

WalkSpec == WalkInit /\ [][WalkNext]_vars


\* ---------------------------------------------------- Sniffer::Sniffer
\* The agent's side of the registration. The hub's answer is an input: the
\* stream ends or fails before a frame ("eof"), the hub stays silent
\* ("silent"), the bytes are no valid frame ("invalid"), or a valid frame of
\* some type comes whose payload is no JSON ("bad"), JSON without "ssid"
\* ("nossid"), JSON whose "ssid" is a string ("text") or JSON with a number
\* as "ssid" ("ok").
Replies ==
    [frame : {"eof", "silent", "invalid", "valid"}, type : FrameTypes,
     json : {"bad", "nossid", "text", "ok"}, ssid : {1, 7}]

AgentFd == 5

AgentInit ==
    /\ HubInit
    /\ TableEmpty
    /\ CodecIdle
    /\ CaptureIdle
    /\ DecoderIdle
    /\ configured \in BOOLEAN
    /\ reply \in Replies
    /\ server_fd_ = -1
    /\ ssid_ = 0
    /\ callback = FALSE
    /\ sent = <<>>
    /\ logs = 0
    /\ apc = "new"

\* what a call of Sniffer::sendFrame can come to: true, false, or the end
\* of the process by SIGPIPE
AgentSends == {"true", "false", "killed"}

\* the constructor up to connectToServer: without a hub address the agent
\* only prints; connectToServer throws when socket or connect fails
ConnectToServer ==
    /\ apc = "new"
    /\ IF ~configured
       THEN apc' = "run" /\ UNCHANGED server_fd_
       ELSE \E ok \in BOOLEAN :
            IF ok THEN apc' = "hello" /\ server_fd_' = AgentFd
            ELSE apc' = "aborted" /\ UNCHANGED server_fd_
    /\ UNCHANGED <<hub, codec, gui, capture, decoder, configured, reply, ssid_,
                   callback, sent, logs>>

\* sendClientHello: throws when sendFrame returns false
SendClientHello ==
    /\ apc = "hello"
    /\ \E r \in AgentSends :
        /\ sent' = IF r = "true" THEN Append(sent, [type |-> TYPE_CLIENT_HELLO, ssid |-> 0])
                   ELSE sent
        /\ apc' = IF r = "true" THEN "wait" ELSE IF r = "false" THEN "aborted" ELSE "killed"
    /\ UNCHANGED <<hub, codec, gui, capture, decoder, configured, reply, server_fd_,
                   ssid_, callback, logs>>

\* a receiveServerHello that takes the first frame for the answer
AnyFrameAccepted(r) == r.frame = "valid" /\ r.json = "ok"

\* receiveServerHello returns: readFrame gave a SERVER_HELLO, its payload
\* parsed and response["ssid"] went into ssid_
HelloAccepted(r) ==
    r.frame = "valid" /\ r.type = TYPE_SERVER_HELLO /\ r.json = "ok"

\* receiveServerHello, and after it the constructor's setLogCallback; the
\* blocking read does not return while the hub is silent
ReceiveServerHello ==
    /\ apc = "wait"
    /\ reply.frame # "silent"
    /\ IF HelloAccepted(reply)
       THEN /\ ssid_' = reply.ssid
            /\ callback' = TRUE
            /\ apc' = "run"
       ELSE /\ apc' = "aborted"
            /\ UNCHANGED <<ssid_, callback>>
    /\ UNCHANGED <<hub, codec, gui, capture, decoder, configured, reply, server_fd_,
                   sent, logs>>

\* the parser calls the log callback: sendTrafficLog puts ssid_ into the
\* record and sends it; a failed send is logged and nothing more
SendTrafficLog ==
    /\ apc = "run"
    /\ callback
    /\ logs < MaxLogs
    /\ logs' = logs + 1
    /\ IF server_fd_ = -1 THEN UNCHANGED <<sent, apc>>
       ELSE \E r \in AgentSends :
            /\ sent' = IF r = "true"
                       THEN Append(sent, [type |-> TYPE_TRAFFIC_LOG, ssid |-> ssid_])
                       ELSE sent
            /\ apc' = IF r = "killed" THEN "killed" ELSE apc
    /\ UNCHANGED <<hub, codec, gui, capture, decoder, configured, reply, server_fd_,
                   ssid_, callback>>

AgentNext == ConnectToServer \/ SendClientHello \/ ReceiveServerHello \/ SendTrafficLog

AgentSpec == AgentInit /\ [][AgentNext]_vars

\* ---------------------------------------------- MainWindow::addLogRowToTable
\* One table of the viewer's window and the records added to it. The logs
\* have fields of the types the function reads, so that nothing throws.
MAX_ROWS == 1000
TRIM_ROWS == 100

\* addLogRowToTable(table, log): with MAX_ROWS rows or more, removeRow(0)
\* TRIM_ROWS times; then insertRow(0) and the items of the new row 0
AddLogRowToTable ==
    /\ added < MaxAdded
    /\ LET kept == IF Len(table) >= MAX_ROWS
                   THEN SubSeq(table, TRIM_ROWS + 1, Len(table))
                   ELSE table
       IN table' = <<added + 1>> \o kept
    /\ added' = added + 1
    /\ UNCHANGED <<hub, codec, sniffer>>

TableSpec == Init /\ [][AddLogRowToTable]_vars

\* ------------------------------------------------------------ vocabulary
\* the connections of the viewers in a client list
ViewersOf(cl) == {fdOwner[cl[i].fd] : i \in {j \in 1..Len(cl) : ~cl[j].is_sniffer}}

\* the broadcast of worker s has gone through the whole client list and
\* still holds the lock
FanFinished(s) == pc[s] = "fan" /\ it[s] > Len(clients)

\* connection v has been sent the whole FORWARD_LOG frame that carries SSID n
\* and the record q of the stream of sniffer s
Delivered(v, s, n, q) ==
    \E i \in 1..Len(wire[v]) - 2 :
        /\ wire[v][i] = Chunk(s, TYPE_FORWARD_LOG, n, q, 1)
        /\ wire[v][i + 1] = Chunk(s, TYPE_FORWARD_LOG, n, q, 2)
        /\ wire[v][i + 2] = Chunk(s, TYPE_FORWARD_LOG, n, q, 3)

\* the positions on connection v where a FORWARD_LOG frame of sniffer s begins
ForwardHeaders(v, s) ==
    {i \in 1..Len(wire[v]) : /\ wire[v][i].type = TYPE_FORWARD_LOG
                             /\ wire[v][i].part = "hdr"
                             /\ wire[v][i].from = s}

\* ------------------------------------------------------------------ C1
\* C1 (fan-out completeness): when the broadcast of a TRAFFIC_LOG record by
\* sniffer S's worker has finished, every viewer that is in the registry and
\* whose connection is still open has been sent the whole FORWARD_LOG frame
\* with S's SSID and that record.
C1_FanOutComplete ==
    \A s \in Conn :
        FanFinished(s) =>
            \A v \in ViewersOf(clients) :
                peer[v] = "open" => Delivered(v, s, ssid[s], LogPayload(frame[s]))

\* ------------------------------------------------------------------ C2
\* C2 (per-sniffer ordering): on every connection the FORWARD_LOG frames of
\* one sniffer appear in the order in which the hub read that sniffer's
\* TRAFFIC_LOG frames, each at most once.
C2_PerSnifferOrder ==
    \A v \in Conn : \A s \in Conn :
        \A i \in ForwardHeaders(v, s) : \A j \in ForwardHeaders(v, s) :
            i < j => wire[v][i].log.seq < wire[v][j].log.seq

\* a viewer has been sent two records of one sniffer and, in between the
\* registrations, another sniffer worker is active
C2_Witness ==
    \E v \in Conn : \E s \in Conn :
        /\ Cardinality(ForwardHeaders(v, s)) >= 2
        /\ \E t \in Conn \ {s} : pc[t] \in {"loop", "fanLock"}

HelloRegion(c, k) ==
    /\ wire[c][k].type = TYPE_SERVER_HELLO
    /\ wire[c][k].from = c
    /\ wire[c][k].part = Parts[k]
    /\ client_fd[c] \in DOMAIN fd_to_ssid => wire[c][k].ssid = fd_to_ssid[client_fd[c]]

C4_HelloFirst ==
    \A c \in Conn :
        /\ wire[c] # <<>> => HelloRegion(c, 1)
        /\ \A i \in 1..Len(wire[c]) :
               wire[c][i].type = TYPE_FORWARD_LOG =>
                   /\ i > 3
                   /\ \A k \in 1..3 : HelloRegion(c, k)

\* a viewer that has been sent a FORWARD_LOG
C4_Witness ==
    \E c \in Conn : /\ pc[c] = "sleep"
                    /\ \E i \in 1..Len(wire[c]) : wire[c][i].type = TYPE_FORWARD_LOG

\* ------------------------------------------------------------------ C5
\* C5 (failed viewer removed): a viewer on which a FORWARD_LOG write has
\* failed is taken out of the registry, so no broadcast of the running hub
\* is about to write to it again.
C5_FailedViewerRemoved ==
    \A w \in Conn : \A v \in Conn :
        (sigpipe = 0 /\ FanTarget(w, v)) => peer[v] # "broken"

\* ------------------------------------------------------------------ C6
\* C6 (isolation): in a broadcast in which a write to a viewer has failed,
\* the hub process runs on, the registry is as the broadcast found it, the
\* sniffer that broadcasts is still registered and its worker still in the
\* broadcast, and when the broadcast has finished every viewer whose
\* connection is open has been sent the record.
FailedBefore(s) ==
    \E i \in 1..Len(clients) :
        /\ ~TooLong(ForwardLen(ssid[s], frame[s].len))
        /\ i < it[s]
        /\ ~clients[i].is_sniffer
        /\ peer[fdOwner[clients[i].fd]] = "broken"

C6_Isolation ==
    \A s \in Conn :
        (pc[s] = "fan" /\ (FailedBefore(s) \/ sigpipe = s)) =>
            /\ sigpipe = 0
            /\ clients = snap[s]
            /\ Registered(s)
            /\ FanFinished(s) =>
                   \A v \in ViewersOf(clients) :
                       peer[v] = "open" => Delivered(v, s, ssid[s], LogPayload(frame[s]))

\* ------------------------------------------------------------------ C7
\* C7 (closed viewer removed): once a registered viewer's connection has
\* closed, its worker removes the session from the registry.
C7_ClosedViewerRemoved ==
    \A v \in Conn : (pc[v] = "sleep" /\ peer[v] # "open") ~> ~Registered(v)

\* ------------------------------------------------------------------ C8
\* C8 (a slow viewer stalls no sniffer worker): while a write to a viewer is
\* blocked, every sniffer worker that is in its broadcast or about to start
\* it can take a step.
WriteIsBlocked ==
    \E w \in Conn : /\ sigpipe = 0
                    /\ pc[w] = "fan"
                    /\ it[w] <= Len(clients)
                    /\ ~(wstep[w] = 0 /\ TooLong(ForwardLen(ssid[w], frame[w].len)))
                    /\ Blocked(clients[it[w]].fd)

C8_SlowViewerStallsNoSniffer ==
    WriteIsBlocked =>
        \A s \in Conn : pc[s] \in {"fanLock", "fan"} => ENABLED Worker(s)

\* ------------------------------------------------------------------ C9
\* C9 (consistent snapshot): during a broadcast the registry is the one the
\* broadcast found when it took the lock, the client the loop is at has an
\* open descriptor, the record has been written only to viewers of that
\* registry, and a finished broadcast has tried every one of them.
SentTo(s) ==
    {v \in Conn : \E i \in 1..Len(wire[v]) :
        /\ wire[v][i].type = TYPE_FORWARD_LOG
        /\ wire[v][i].from = s
        /\ wire[v][i].log = LogPayload(frame[s])}

C9_ConsistentSnapshot ==
    \A s \in Conn :
        pc[s] = "fan" =>
            /\ clients = snap[s]
            /\ it[s] <= Len(clients) => fdOwner[clients[it[s]].fd] # 0
            /\ 0 \notin ViewersOf(snap[s])
            /\ SentTo(s) \subseteq ViewersOf(snap[s])
            /\ (FanFinished(s) /\ ~TooLong(ForwardLen(ssid[s], frame[s].len))) =>
                   \A v \in ViewersOf(snap[s]) : v \in SentTo(s) \/ peer[v] = "broken"

\* a broadcast has written to a viewer while another connection waits for
\* the lock to register
C9_Witness ==
    \E s \in Conn : \E c \in Conn :
        /\ pc[s] = "fan"
        /\ SentTo(s) # {}
        /\ pc[c] = "helloLock"

\* ----------------------------------------------------------------- C10
\* C10 (writes to one connection are serialized): on every connection a
\* payload region follows the header region of its own frame and a
\* terminator follows the payload region of its own frame; no region of
\* another frame lies in between.
SameFrame(a, b) == a.from = b.from /\ a.type = b.type /\ a.log = b.log

C10_WritesSerialized ==
    \A c \in Conn : \A i \in 1..Len(wire[c]) :
        /\ wire[c][i].part = "pay" =>
               i > 1 /\ wire[c][i - 1].part = "hdr" /\ SameFrame(wire[c][i - 1], wire[c][i])
        /\ wire[c][i].part = "term" =>
               i > 1 /\ wire[c][i - 1].part = "pay" /\ SameFrame(wire[c][i - 1], wire[c][i])

\* a viewer has been sent whole frames by two sniffer workers
C10_Witness ==
    \E v \in Conn : \E s \in Conn : \E t \in Conn :
        /\ s # t
        /\ \E o \in OwnSsids : Delivered(v, s, ssid[s], [seq |-> 1, ssid |-> o])
        /\ \E o \in OwnSsids : Delivered(v, t, ssid[t], [seq |-> 1, ssid |-> o])
\* ----------------------------------------------------------------- C11
\* C11 (failed SERVER_HELLO): the step in which the send of the SERVER_HELLO
\* fails closes the connection's descriptor, leaves no client entry and no
\* fd_to_ssid mapping for that descriptor, and does not take the counter
\* back, so the SSID goes to no later connection.
HelloFails(c) == pc[c] = "helloSend" /\ pc'[c] = "done"

C11_HelloFailure ==
    [][\A c \in Conn :
          HelloFails(c) =>
              /\ fdOwner'[client_fd[c]] = 0
              /\ \A i \in 1..Len(clients') : clients'[i].fd # client_fd[c]
              /\ client_fd[c] \notin DOMAIN fd_to_ssid'
              /\ next_ssid' = next_ssid]_vars

\* ----------------------------------------------------------------- C12
\* C12 (teardown): whenever a worker ends, the registry holds no entry for
\* its descriptor afterwards, the descriptor was open and is closed, and the
\* entries of the other descriptors are as before.
WorkerExits(c) == pc[c] # "done" /\ pc'[c] = "done"

C12_Teardown ==
    [][\A c \in Conn :
          WorkerExits(c) =>
              /\ fdOwner[client_fd[c]] = c
              /\ fdOwner'[client_fd[c]] = 0
              /\ \A f \in FDs \ {client_fd[c]} : fdOwner'[f] = fdOwner[f]
              /\ clients' = RemoveFd(clients, client_fd[c])
              /\ \A i \in 1..Len(clients') : clients'[i].fd # client_fd[c]
              /\ client_fd[c] \notin DOMAIN fd_to_ssid'
              /\ \A f \in DOMAIN fd_to_ssid \ {client_fd[c]} :
                     f \in DOMAIN fd_to_ssid' /\ fd_to_ssid'[f] = fd_to_ssid[f]]_vars

\* ----------------------------------------------------------------- C13
\* C13 (registry invariant): in every state every session entry is of a
\* descriptor that is open, every worker past its registration has exactly
\* one entry, which carries its SSID, and no two entries share a descriptor
\* or an SSID.
EntriesOf(f) == {i \in 1..Len(clients) : clients[i].fd = f}

C14_NeverZero == \A i \in DOMAIN assigned : assigned[i] # 0

\* ----------------------------------------------------------------- C15
\* C15 (first frame is not a CLIENT_HELLO): the worker that ends without
\* having registered has sent nothing, and the step that ends it closes its
\* descriptor and leaves the counter, the client list and fd_to_ssid as
\* they were.
C15_NonHelloFirst ==
    [][\A c \in Conn :
          (pc[c] = "cleanup" /\ pc'[c] = "done" /\ EntriesOf(client_fd[c]) = {}) =>
              /\ wire[c] = <<>>
              /\ fdOwner'[client_fd[c]] = 0
              /\ next_ssid' = next_ssid
              /\ assigned' = assigned
              /\ clients' = clients
              /\ fd_to_ssid' = fd_to_ssid]_vars
\* ----------------------------------------------------------------- C16
\* C16 (frame round-trip): when the bytes the encoder wrote for (type,
\* payload) have all reached a decoder as they were written, the decoder,
\* the hub's or the viewer's, has produced exactly the frame (type, payload).
IntactAlone == sendOk = "true" /\ fault = [kind |-> "none", tail |-> 0]

C17_ShortReads ==
    (cpc = "decode" /\ role = "viewer" /\ open /\ IntactAlone) =>
        /\ pos < Len(stream) => frames = <<>> /\ read_buffer_ = SubSeq(stream, 1, pos)
        /\ pos = Len(stream) => frames = <<tx>> /\ read_buffer_ = <<>>

\* all of a frame but its terminator has come and is buffered
C17_Witness ==
    /\ cpc = "decode" /\ role = "viewer" /\ open /\ IntactAlone
    /\ Len(tx.payload) = MaxSmall
    /\ Len(read_buffer_) = Len(stream) - 1
    /\ pos = Len(stream) - 1

\* ----------------------------------------------------------------- C18
\* C18 (frame rejection): once a decoder has taken the bytes up to the place
\* where a frame breaks the version, length or terminator rule, it has found
\* the framing error; at that moment it has produced no frame, the hub's
\* decoder has read nothing past that place, and the viewer's decoder holds
\* no byte it could still decode.
ErrPoint == IF fault.kind = "term" THEN Len(chan) ELSE HEADER_SIZE

C19_ErrorCloses ==
    cpc = "decode" =>
        /\ failed # -1 => ~open /\ read_buffer_ = <<>>
        /\ (role = "hub" /\ ~open /\ failed = -1) => pos = Len(stream)

IpAt == SizeofEtherHeader

Ihl == IpHl(packet, IpAt)

Remaining == Len(packet) - IpAt - 4 * Ihl

\* parseIPv4 has gone past its two length tests
PastHeaderChecks ==
    /\ ppc = "done" /\ "parseIPv4" \in invoked
    /\ IpAt + SizeofIp <= Len(packet)
    /\ IpAt + 4 * Ihl <= Len(packet)

Transport == {"parseTCP", "parseUDP", "parseICMP"}

\* ----------------------------------------------------------------- C21
\* C21 (a frame write is atomic for the caller): once a call of sendFrame is
\* over, either header, payload and terminator are all on the transport and
\* it has returned true, or it has returned false.
C21_AtomicWrite ==
    cpc # "send" /\ cpc # "off" =>
        \/ sendOk = "true" /\ chan = SendFrameBytes(tx.type, tx.payload)
        \/ sendOk = "false"

\* ----------------------------------------------------------------- C22
\* C22 (several frames, any chunking): when valid frames reach the viewer's
\* decoder one after the other in chunks, the frames produced so far are
\* exactly the frames whose last byte has come, in their order, and the
\* buffer holds exactly the bytes that have come of the frame after them.
Sequel == <<tx>> \o [i \in 1..fault.tail |-> TailRecord(i)]

\* where the i-th frame of the stream ends
EndOf(i) == Len(chan) + (i - 1) * Len(TailFrame(1))

Whole == Cardinality({i \in 1..Len(Sequel) : EndOf(i) <= pos})

C22_ManyFrames ==
    (cpc = "decode" /\ role = "viewer" /\ open /\ sendOk = "true" /\ fault.kind = "none") =>
        /\ frames = SubSeq(Sequel, 1, Whole)
        /\ read_buffer_ = SubSeq(stream, (IF Whole = 0 THEN 0 ELSE EndOf(Whole)) + 1, pos)

\* a frame of MaxPayload bytes and the frames after it have all been produced
C22_Witness ==
    /\ cpc = "decode" /\ role = "viewer" /\ open /\ fault = [kind |-> "none", tail |-> MaxTail]
    /\ Len(frames) = MaxTail + 1
    /\ Len(tx.payload) = MaxPayload
\* ----------------------------------------------------------------- C23
\* C23 (the walk gives up safely): when, at the cursor p of a batch of N
\* bytes, p + hdrlen > N, or p + hdrlen + caplen > N, or hdrlen is less than
\* a capture header needs for its own fields, the walk of the batch ends,
\* no slice goes to the parser and no byte at offset N or beyond is read.
C23_FailSafeExit ==
    (last.p >= 0
        /\ (\/ last.p + last.hdrlen > bytes_read
            \/ last.p + last.hdrlen + last.caplen > bytes_read
            \/ last.hdrlen < MinHdrlen)) =>
        last.stop /\ ~last.hand /\ last.top < bytes_read

\* ----------------------------------------------------------------- C24
\* C24 (IPv4 header checks): a packet whose IHL is below 5, or whose slice
\* after the Ethernet header is shorter than IHL*4 bytes, gives no record and
\* no transport decoder is called for it.
C24_IPv4Rejects ==
    (ppc = "done" /\ "parseIPv4" \in invoked /\ Len(packet) > IpAt
        /\ (Ihl < 5 \/ Len(packet) - IpAt < 4 * Ihl)) =>
        output = <<>> /\ invoked \cap Transport = {}

\* ----------------------------------------------------------------- C25
\* C25 (the decoders stay inside the slice): for every slice of 0 to MaxCap
\* bytes each offset the decoders read is below the slice's length, and the
\* call returns with a record or with none.
C25_ReadsInBounds ==
    ppc = "done" =>
        /\ \A o \in touched : o >= 0 /\ o < Len(packet)
        /\ Len(output) <= 1

\* a UDP datagram that ends with its header: the length field, the last two
\* bytes but two of the slice, has been read
C25_Witness ==
    /\ ppc = "done" /\ "parseUDP" \in invoked /\ output # <<>>
    /\ Len(packet) = SizeofEtherHeader + SizeofIp + SizeofUdphdr
    /\ Len(packet) - 3 \in touched

\* ----------------------------------------------------------------- C26
\* C26 (dispatch on the protocol byte): a packet that is past the IPv4
\* header checks gives at most one record. Protocol 6: a TCP record exactly
\* when 20 bytes or more remain, its length the captured bytes after the
\* IPv4 header. Protocol 17: a UDP record exactly when 8 bytes or more
\* remain, its length the UDP length field. Protocol 1: the ICMP decoder is
\* called. Any other: a record with the decimal protocol number and the IPv4
\* total-length field.
C26_Dispatch ==
    PastHeaderChecks =>
        LET ip_p == ByteAt(packet, IpAt + 9)
            at == IpAt + 4 * Ihl IN
        /\ Len(output) <= 1
        /\ ip_p = IPPROTO_TCP =>
            /\ output # <<>> <=> Remaining >= 20
            /\ output # <<>> =>
                /\ output[1].protocol = "TCP" /\ output[1].length = Remaining
                /\ output[1].src_port = Ntohs(packet, at)
                /\ output[1].dst_port = Ntohs(packet, at + 2)
        /\ ip_p = IPPROTO_UDP =>
            /\ output # <<>> <=> Remaining >= 8
            /\ output # <<>> =>
                /\ output[1].protocol = "UDP"
                /\ output[1].length = Ntohs(packet, at + 4)
        /\ ip_p = IPPROTO_ICMP =>
            /\ "parseICMP" \in invoked
            /\ output # <<>> => output[1].protocol = "ICMP"
        /\ ip_p \notin {IPPROTO_TCP, IPPROTO_UDP, IPPROTO_ICMP} =>
            /\ invoked \cap Transport = {}
            /\ Len(output) = 1
            /\ output[1].protocol = Decimal(ip_p)
            /\ output[1].length = Ntohs(packet, IpAt + 2)

\* Ethernet, an IPv4 header of 20 bytes and a TCP header of 20 bytes: a TCP
\* record of length 20
C26_Witness ==
    /\ PastHeaderChecks /\ Ihl = 5
    /\ Len(packet) = SizeofEtherHeader + SizeofIp + SizeofTcphdr
    /\ output # <<>> /\ output[1].protocol = "TCP" /\ output[1].length = 20

\* ----------------------------------------------------------------- C27
\* C27 (ICMP): for an ICMP message behind an IPv4 header of 20 bytes or more
\* the ICMP decoder gives a record exactly when 8 bytes or more remain after
\* that header; the record carries type and code, and id and seq exactly
\* when the type is 0 or 8.
C27_ICMP ==
    (ppc = "done" /\ "parseICMP" \in invoked /\ Ihl >= 5) =>
        /\ output # <<>> <=> Remaining >= 8
        /\ output # <<>> =>
            LET at == IpAt + 4 * Ihl IN
            /\ output[1].icmp_type = ByteAt(packet, at)
            /\ output[1].icmp_code = ByteAt(packet, at + 1)
            /\ "icmp_id" \in DOMAIN output[1] <=>
                    output[1].icmp_type \in {ICMP_ECHOREPLY, ICMP_ECHO}
            /\ "icmp_id" \in DOMAIN output[1] =>
                /\ output[1].icmp_id = Ntohs(packet, at + 4)
                /\ output[1].icmp_seq = Ntohs(packet, at + 6)
\* ----------------------------------------------------------------- C28
\* C28 (the hub's SSID is the one that counts): every FORWARD_LOG frame of a
\* sniffer session carries the SSID the hub assigned to that session and
\* sent in its SERVER_HELLO, whatever "ssid" the traffic record carries
\* itself, and carries that record unchanged as its log.
C28_HubSsid ==
    \A v \in Conn : \A i \in 1..Len(wire[v]) :
        LET ch == wire[v][i]
            w == ch.from IN
        (ch.type = TYPE_FORWARD_LOG /\ pc[w] \in {"loop", "fanLock", "fan"}) =>
            /\ ch.ssid = ssid[w]
            /\ ch.ssid = fd_to_ssid[client_fd[w]]
            /\ \E j \in 1..Len(wire[w]) :
                    wire[w][j] = Chunk(w, TYPE_SERVER_HELLO, ch.ssid, 0, 1)
            /\ (pc[w] = "fan" /\ ch.log.seq = frame[w].seq) =>
                    ch.log = [seq |-> frame[w].seq, ssid |-> frame[w].own]

\* a whole FORWARD_LOG frame has gone to a viewer with the hub's SSID and a
\* record that came with another "ssid"
C28_Witness ==
    \E v \in Conn : \E s \in Conn :
        /\ pc[s] = "fan" /\ frame[s].own # ssid[s]
        /\ Delivered(v, s, ssid[s], LogPayload(frame[s]))
\* ----------------------------------------------------------------- C29
\* C29 (the agent registers first): the first frame an agent with a hub
\* address sends is CLIENT_HELLO; it sends a TRAFFIC_LOG only after a
\* SERVER_HELLO with an SSID has come, and each carries that SSID; when the
\* answer is the end of the stream, no valid frame, a frame of another type
\* or a SERVER_HELLO without a usable SSID, the agent has aborted once
\* receiveServerHello is over and has sent no TRAFFIC_LOG.
TrafficSent == {i \in 1..Len(sent) : sent[i].type = TYPE_TRAFFIC_LOG}

GoodReply ==
    reply.frame = "valid" /\ reply.type = TYPE_SERVER_HELLO /\ reply.json = "ok"

C29_RegistrationFlow ==
    /\ sent # <<>> => sent[1].type = TYPE_CLIENT_HELLO
    /\ TrafficSent # {} => GoodReply
    /\ \A i \in TrafficSent : sent[i].ssid = reply.ssid
    /\ (apc \in {"run", "aborted", "killed"} /\ sent # <<>> /\ ~GoodReply) =>
            apc = "aborted" /\ TrafficSent = {}
    /\ apc \in {"new", "hello", "wait"} => TrafficSent = {} /\ ~callback

\* CLIENT_HELLO, then two TRAFFIC_LOG frames with the SSID of the answer
C29_Witness ==
    /\ Len(sent) = 3 /\ sent[1].type = TYPE_CLIENT_HELLO
    /\ TrafficSent = {2, 3} /\ sent[3].ssid = 7
\* ----------------------------------------------------------------- C30
\* C30 (frames of other types are ignored): when the hub's sniffer loop
\* reads a well-formed frame that is no TRAFFIC_LOG, nothing is written to
\* any connection, the registry stays as it is, no lock is taken and the
\* worker is in the loop for the next frame; and the viewer emits a record
\* for no frame but a FORWARD_LOG, and has decoded every valid frame that
\* has wholly come after such a frame.
HubIgnores ==
    \A c \in Conn : (pc[c] = "loop" /\ total' = total + 1) =>
        \A f \in LoopFrames :
            (f.type # TYPE_TRAFFIC_LOG /\ SnifferReadFrame(c, f)) =>
                /\ wire' = wire
                /\ registry' = registry
                /\ mutex' = mutex
                /\ pc'[c] = "loop" /\ nread'[c] = nread[c] + 1

ViewerIgnores ==
    (cpc = "decode" /\ role = "viewer") =>
        /\ Len(emitted) <= Cardinality({i \in 1..Len(frames) :
                                            frames[i].type = TYPE_FORWARD_LOG})
        /\ (frames # <<>> /\ frames[1].type = TYPE_FORWARD_LOG
                /\ frames[1].payload = ForwardDoc) => emitted # <<>>
        /\ (fault.kind = "none" /\ open /\ pos = Len(stream)) =>
                Len(frames) = 1 + fault.tail

C30_OtherTypesIgnored == [](ViewerIgnores) /\ [][HubIgnores]_vars

\* the viewer has decoded a frame of the unknown type and the two frames
\* after it and has emitted nothing
C30_Witness ==
    /\ cpc = "decode" /\ role = "viewer" /\ open
    /\ Len(frames) = 1 + MaxTail /\ frames[1].type = UnknownType
    /\ emitted = <<>>

\* ----------------------------------------------------------------- C31
\* C31 (redundant boundary validation): when the length field or the
\* terminator of an otherwise valid frame has been changed to another value,
\* the decoder produces no frame from these bytes: as long as it has found no
\* framing error it has produced nothing.
C31_CorruptionDetected ==
    (cpc = "decode" /\ fault.kind \in {"relen", "term"} /\ failed = -1) => frames = <<>>

\* ----------------------------------------------------------------- C32
\* C32 (table trimming): after any sequence of records the table holds at
\* most MAX_ROWS rows, and they show the records received last, the newest
\* in row 0.
C32_TableTrim ==
    /\ Len(table) <= MAX_ROWS
    /\ \A i \in 1..Len(table) : table[i] = added - i + 1

\* ----------------------------------------------------------------- C33
\* C33 (a disconnect clears the buffer): whatever connections came and went
\* before, the viewer's buffer holds only bytes received on the present
\* connection, the last of them; and the frame the hub sends on a later
\* connection is decoded as it was sent.
C33_BufferPerConnection ==
    (cpc = "decode" /\ role = "viewer") =>
        /\ Len(read_buffer_) <= pos
        /\ read_buffer_ = SubSeq(stream, pos - Len(read_buffer_) + 1, pos)
        /\ (open /\ stream = Tails(1) /\ pos = Len(stream)) => frames = <<TailRecord(1)>>

\* on a connection made after a disconnect, with another frame than the
\* first connection's, all but the last byte has come and is buffered
C33_Witness ==
    /\ cpc = "decode" /\ role = "viewer" /\ open
    /\ stream = Tails(1) /\ tx # TailRecord(1)
    /\ pos = Len(stream) - 1
    /\ read_buffer_ = SubSeq(stream, 1, pos)

\* ----------------------------------------------------------------- C34
\* C34 (the walk of a batch ends): every turn of the inner loop that does
\* not leave the loop moves the cursor forward, whatever the capture header
\* at the cursor holds.
C34_CursorAdvances == [][(wk = "walk" /\ wk' = "walk") => ptr' > ptr]_vars

C36_OnlyWrittenFrames ==
    (cpc = "decode" /\ role = "viewer" /\ fault.kind \in {"version", "length", "term"}) =>
        \A i \in 1..Len(frames) :
            \E j \in 1..fault.tail :
                /\ frames[i] = TailRecord(j)
                /\ \A k \in 1..(i - 1) : \E h \in 1..(j - 1) : frames[k] = TailRecord(h)

\* ----------------------------------------------------------------- C37
\* C37 (the two decoders agree): as long as the viewer's decoder has found
\* no framing error, and at the moment it finds the first, the frames it has
\* produced from the bytes received so far, in whatever chunks, are the
\* frames the hub's blocking decoder produces from the same bytes, and the
\* one has found a framing error exactly if the other has.
C37_DecoderEquivalence ==
    (cpc = "decode" /\ role = "viewer" /\ open /\ (failed = -1 \/ failed = pos)) =>
        LET h == HubDecode(SubSeq(stream, 1, pos), <<>>) IN
            /\ frames = h.out
            /\ (failed # -1) = h.err

\* after a frame that both decoders produce, the viewer's decoder has just
\* found a framing error
C37_Witness ==
    /\ cpc = "decode" /\ role = "viewer" /\ open
    /\ Len(frames) = 1
    /\ failed = pos
    /\ HubDecode(SubSeq(stream, 1, pos), <<>>) = [out |-> frames, err |-> TRUE]

\* C38: when a registered sniffer's worker reads a well-framed TRAFFIC_LOG
\* whose payload json::parse rejects, that step writes nothing to any
\* connection, changes no session and takes the worker through the catch
\* block to the end of handleClient; the step the worker takes from there
\* removes exactly its own entries, closes its connection and leaves the
\* entries, the positions and the connections of all other sessions as
\* they were.
C38_BadJsonEndsSession ==
    [][\A c \in Conn :
          /\ (pc[c] = "loop" /\ total' = total + 1) =>
                \A f \in LoopFrames :
                    (f.type = TYPE_TRAFFIC_LOG /\ ~f.json /\ SnifferReadFrame(c, f)) =>
                        /\ wire' = wire
                        /\ clients' = clients /\ fd_to_ssid' = fd_to_ssid
                        /\ pc'[c] = "cleanup" /\ caught'[c]
                        /\ \A d \in Conn \ {c} : pc'[d] = pc[d] /\ peer'[d] = peer[d]
          /\ (caught[c] /\ pc[c] = "cleanup" /\ pc'[c] # "cleanup") =>
                /\ pc'[c] = "done" /\ peer'[c] = "closed"
                /\ fdOwner'[client_fd[c]] = 0
                /\ clients' = SelectSeq(clients, LAMBDA e : e.fd # client_fd[c])
                /\ DOMAIN fd_to_ssid' = DOMAIN fd_to_ssid \ {client_fd[c]}
                /\ \A g \in DOMAIN fd_to_ssid' : fd_to_ssid'[g] = fd_to_ssid[g]
                /\ \A d \in Conn \ {c} :
                      /\ pc'[d] = pc[d] /\ peer'[d] = peer[d]
                      /\ wire'[d] = wire[d] /\ client_fd'[d] = client_fd[d]
      ]_vars

\* a registered sniffer's worker is past the catch block, with its entry
\* still in clients, while a viewer that has been sent its SERVER_HELLO and
\* nothing else, and another sniffer in its loop, are registered
C38_Witness ==
    \E s \in Conn : \E v \in Conn : \E o \in Conn :
        /\ caught[s] /\ pc[s] = "cleanup"
        /\ \E i \in 1..Len(clients) : clients[i].fd = client_fd[s] /\ clients[i].is_sniffer
        /\ pc[v] = "sleep" /\ Len(wire[v]) = 3
        /\ \E i \in 1..Len(clients) : clients[i].fd = client_fd[v]
        /\ pc[o] = "loop" /\ o # s
        /\ sigpipe = 0

Waiting(c) == sigpipe = 0 /\ pc[c] \in {"helloLock", "fanLock", "cleanup"}

Acquired(c) == mutex = c \/ pc[c] = "done"

WritesReturn ==
    /\ [](sigpipe = 0)
    /\ \A v \in Conn : []<>(~stalled[v])

C40_LockDiscipline ==
    /\ [](\A c \in Conn :
            /\ mutex = c => pc[c] \in {"helloSend", "fan"}
            /\ pc[c] \in {"first", "loop"} => mutex # c)
    /\ [][\A c \in Conn :
            (mutex = c /\ pc'[c] \notin {"helloSend", "fan"}) => mutex' = 0]_vars
    /\ WritesReturn => \A c \in Conn : Waiting(c) ~> Acquired(c)

\* a worker waits for the lock at its broadcast while another worker, in
\* the registration block, holds it
C40_Witness ==
    \E c \in Conn : \E h \in Conn :
        /\ sigpipe = 0
        /\ pc[c] = "fanLock"
        /\ mutex = h /\ pc[h] = "helloSend" /\ wstep[h] = 1

====
